---- MODULE Spec2Model ----
(***************************************************************************)
(* Model of the static-site post-processing scripts:                       *)
(*   scripts/fix_canonical.py, tools/inject_metrika.py,                    *)
(*   tools/generate_sitemap.py, tools/generate_rss.py and the base-URL     *)
(*   detection of tools/generate_pages.py.                                 *)
(*                                                                         *)
(* Text (documents, URLs, environment values) is a sequence of characters, *)
(* each character a one-character string, so that the string and regex     *)
(* operations of the scripts are computed character by character.          *)
(* A pathlib path is the sequence of its parts, each part a text.          *)
(***************************************************************************)
EXTENDS Integers, Sequences, FiniteSets, TLC

VARIABLES
    \* ---- the three canonicalizers applied to one path (SpecUrl)
    rel,        \* the document's path relative to ROOT: a sequence of parts
    base,       \* the BASE_URL value handed to the canonicalizers
    urlDone,    \* which canonicalizers have run
    canon,      \* fix_canonical.build_canonical_for(path, base)
    smLoc,      \* generate_sitemap.to_url(rel)
    rssLink,    \* generate_rss.to_url(rel)
    \* ---- base-URL resolution (SpecBase)
    envBaseUrl,     \* os.environ["BASE_URL"] as fix_canonical reads it
    envSiteDomain,  \* os.environ["SITE_DOMAIN"] as generate_pages reads it
    repoSet,        \* GITHUB_REPOSITORY is set to <repoOwner>/<repoName>
    repoOwner,
    repoName,
    cnameExists,    \* the CNAME marker file exists
    cnameText,      \* its content
    fcBase,         \* what fix_canonical.main resolves (lines 92-94)
    gpBase,         \* generate_pages.BASE_URL (line 48)
    \* ---- a tree of HTML files and fix_canonical.main running over it (SpecCanon)
    fcText,         \* the text of each file of the tree, by file number
    fcUnreadable,   \* files whose read_text raises
    fcUnwritable,   \* files whose write_text raises
    fcPc,           \* "start", "loop", "done", "exit" (SystemExit), "raise"
    fcRun,          \* the number of this run of the script
    fcTodo,         \* files rglob has yet to yield in this run
    fcChanged,      \* changed_files
    fcSkipped,      \* skipped_files
    fcPrev,         \* the texts when this run started
    fcReads,        \* files read in this run
    fcWrites,       \* files written in this run
    \* ---- a tree of HTML files and inject_metrika.main running over it (SpecMetrika)
    imText,         \* the text of each file of the tree, by file number
    imDry,          \* args.dry_run of this run
    imPc,           \* "start", "loop", "done"
    imRun,          \* the number of this run of the script
    imTodo,         \* files of the list `files` not yet visited in this run
    imAdded,        \* added
    imUpdated,      \* updated
    imSkipped,      \* skipped
    imTouched,      \* touched: <<kind, file>> in the order of the visits
    imKind,         \* the branch each file took in this run ("none": not visited)
    imPrev,         \* the texts when this run started
    imPrevKind,     \* the branch each file took in the previous run
    imPrevDry,      \* whether the previous run was a dry run
    \* ---- the crawled tree of both generators (SpecSitemap, SpecRss, SpecPipeline)
    tree,           \* the *.html files in rglob order: [path, dt, html]
    \* ---- generate_sitemap.main (SpecSitemap)
    smRun,          \* the number of this run of the script
    smMaxUrls,      \* MAX_URLS
    smPc,           \* "start", "collected", "parts", "index", "main", "done", "raise"
    smItems,        \* items
    smI,            \* i of the loop over range(0, len(items), MAX_URLS)
    smParts,        \* parts: the names of the part files written so far
    smDisk,         \* sitemap.xml, sitemap_index.xml and the sitemap-N.xml files
    smWritten,      \* the names of the files this run has written
    \* ---- generate_rss.main (SpecRss)
    rssMaxItems,    \* MAX_ITEMS
    rssPc,          \* "start", "collected", "done"
    rssItems,       \* items
    rssFile         \* rss.xml

urlVars == <<rel, base, urlDone, canon, smLoc, rssLink>>
baseVars == <<envBaseUrl, envSiteDomain, repoSet, repoOwner, repoName,
              cnameExists, cnameText, fcBase, gpBase>>
fcVars == <<fcText, fcUnreadable, fcUnwritable, fcPc, fcRun, fcTodo, fcChanged,
            fcSkipped, fcPrev, fcReads, fcWrites>>
imVars == <<imText, imDry, imPc, imRun, imTodo, imAdded, imUpdated, imSkipped,
            imTouched, imKind, imPrev, imPrevKind, imPrevDry>>
smVars == <<smRun, smMaxUrls, smPc, smItems, smI, smParts, smDisk, smWritten>>
rssVars == <<rssMaxItems, rssPc, rssItems, rssFile>>
genVars == <<tree, smVars, rssVars>>
vars == <<urlVars, baseVars, fcVars, imVars, genVars>>

(***************************************************************************)
(* Outcomes of a resolution, and the value of each component's variables   *)
(* in the specifications that do not run it.                               *)
(***************************************************************************)
Ok(u) == [kind |-> "ok", url |-> u]
Exit == [kind |-> "exit", url |-> <<>>]
Raise == [kind |-> "raise", url |-> <<>>]
Unresolved == [kind |-> "none", url |-> <<>>]

UrlIdle ==
    /\ rel = <<>>
    /\ base = <<>>
    /\ urlDone = {}
    /\ canon = <<>>
    /\ smLoc = <<>>
    /\ rssLink = <<>>

BaseIdle ==
    /\ envBaseUrl = <<>>
    /\ envSiteDomain = <<>>
    /\ repoSet = FALSE
    /\ repoOwner = <<>>
    /\ repoName = <<>>
    /\ cnameExists = FALSE
    /\ cnameText = <<>>
    /\ fcBase = Unresolved
    /\ gpBase = Unresolved

\* fix_canonical not started, over a tree with no HTML file
FcIdle ==
    /\ fcText = <<>>
    /\ fcUnreadable = {}
    /\ fcUnwritable = {}
    /\ fcPc = "start"
    /\ fcRun = 1
    /\ fcTodo = {}
    /\ fcChanged = 0
    /\ fcSkipped = 0
    /\ fcPrev = <<>>
    /\ fcReads = {}
    /\ fcWrites = {}

\* inject_metrika not started, over a tree with no HTML file
ImIdle ==
    /\ imText = <<>>
    /\ imDry = FALSE
    /\ imPc = "start"
    /\ imRun = 1
    /\ imTodo = {}
    /\ imAdded = 0
    /\ imUpdated = 0
    /\ imSkipped = 0
    /\ imTouched = <<>>
    /\ imKind = <<>>
    /\ imPrev = <<>>
    /\ imPrevKind = <<>>
    /\ imPrevDry = FALSE

\* a file that does not exist
Absent == [kind |-> "absent", entries |-> <<>>]

\* generate_sitemap not started, nothing on disk
SmIdle ==
    /\ smRun = 0
    /\ smMaxUrls = 0
    /\ smPc = "start"
    /\ smItems = <<>>
    /\ smI = 0
    /\ smParts = <<>>
    /\ smDisk = <<>>
    /\ smWritten = {}

\* generate_rss not started, no rss.xml
RssIdle ==
    /\ rssMaxItems = 0
    /\ rssPc = "start"
    /\ rssItems = <<>>
    /\ rssFile = Absent

\* the generators not started, over a tree with no HTML file
GenIdle == tree = <<>> /\ SmIdle /\ RssIdle

(***************************************************************************)
(* Bounds of the model.                                                    *)
(***************************************************************************)
MaxDepth == 2       \* directories above a document
MaxPieces == 3      \* fragments a generated HTML document is made of
MaxRuns == 2        \* runs of a script over the same tree
MaxFiles == 5       \* *.html files of a crawled tree
MaxCap == 2         \* the largest MAX_URLS and MAX_ITEMS
MaxPipelineFiles == 2   \* files of the tree the three scripts share

(***************************************************************************)
(* Python's str operations, on sequences of characters.                    *)
(***************************************************************************)
SetMin(S) == CHOOSE i \in S : \A j \in S : i <= j
SetMax(S) == CHOOSE i \in S : \A j \in S : i >= j

UpperChars == <<"A","B","C","D","E","F","G","H","I","J","K","L","M",
                "N","O","P","Q","R","S","T","U","V","W","X","Y","Z">>
LowerChars == <<"a","b","c","d","e","f","g","h","i","j","k","l","m",
                "n","o","p","q","r","s","t","u","v","w","x","y","z">>
Digits == {"0","1","2","3","4","5","6","7","8","9"}
Whitespace == {" ", "\n", "\t", "\r"}

\* str.lower() of one character
LowerOf == [c \in {UpperChars[i] : i \in 1..26} |->
               LowerChars[CHOOSE i \in 1..26 : UpperChars[i] = c]]
LowerChar(c) == IF c \in DOMAIN LowerOf THEN LowerOf[c] ELSE c

\* str.lower() over characters that lower-case to one character
Lower(s) == [i \in 1..Len(s) |-> LowerChar(s[i])]

\* s[a:b] with 1-based inclusive positions; empty when a > b
Slice(s, a, b) == IF a > b THEN <<>> ELSE SubSeq(s, a, b)

\* s.startswith(p), s.endswith(p)
StartsWith(s, p) == Len(s) >= Len(p) /\ Slice(s, 1, Len(p)) = p
EndsWith(s, p) == Len(s) >= Len(p) /\ Slice(s, Len(s) - Len(p) + 1, Len(s)) = p

\* p occurs in s at position i
OccursAt(s, p, i) ==
    /\ i >= 1
    /\ i + Len(p) - 1 <= Len(s)
    /\ \A k \in 1..Len(p) : s[i + k - 1] = p[k]

\* s.find(p, from): the first position >= from where p occurs, 0 when none
Find(s, p, from) ==
    LET hits == {i \in from..(Len(s) - Len(p) + 1) : OccursAt(s, p, i)}
    IN IF hits = {} THEN 0 ELSE SetMin(hits)

\* s.rfind(p): the last position where p occurs, 0 when none
RFind(s, p) ==
    LET hits == {i \in 1..(Len(s) - Len(p) + 1) : OccursAt(s, p, i)}
    IN IF hits = {} THEN 0 ELSE SetMax(hits)

\* p in s
Contains(s, p) == Find(s, p, 1) # 0

\* s.replace(old, new): leftmost, non-overlapping occurrences (old non-empty)
RECURSIVE Replace(_, _, _)
Replace(s, old, new) ==
    LET i == Find(s, old, 1)
    IN IF i = 0 THEN s
       ELSE Slice(s, 1, i - 1) \o new \o Replace(Slice(s, i + Len(old), Len(s)), old, new)

\* s.rstrip("/")
RECURSIVE RStripSlash(_)
RStripSlash(s) ==
    IF Len(s) > 0 /\ s[Len(s)] = "/" THEN RStripSlash(Slice(s, 1, Len(s) - 1)) ELSE s

\* s.strip(): leading and trailing whitespace removed
RECURSIVE LStrip(_)
LStrip(s) == IF Len(s) > 0 /\ s[1] \in Whitespace THEN LStrip(Tail(s)) ELSE s
RECURSIVE RStrip(_)
RStrip(s) ==
    IF Len(s) > 0 /\ s[Len(s)] \in Whitespace THEN RStrip(Slice(s, 1, Len(s) - 1)) ELSE s
Strip(s) == RStrip(LStrip(s))

\* the concatenation of a sequence of texts
RECURSIVE Concat(_)
Concat(ss) == IF ss = <<>> THEN <<>> ELSE Head(ss) \o Concat(Tail(ss))

\* str.lower() in full: U+0130 (capital I with dot above) is the one
\* character whose lower case is two characters, "i" and U+0307; the two
\* non-ASCII characters are written by their code points
str_lower(s) ==
    Concat([i \in 1..Len(s) |->
              IF s[i] = "U+0130" THEN <<"i", "U+0307">> ELSE <<LowerChar(s[i])>>])

\* sep.join(parts)
RECURSIVE Join(_, _)
Join(parts, sep) ==
    IF parts = <<>> THEN <<>>
    ELSE IF Len(parts) = 1 THEN parts[1]
    ELSE parts[1] \o sep \o Join(Tail(parts), sep)

(***************************************************************************)
(* pathlib: a relative path is its sequence of parts.                      *)
(***************************************************************************)
\* PurePath.as_posix(); the empty path is "."
AsPosix(parts) == IF parts = <<>> THEN <<".">> ELSE Join(parts, <<"/">>)

\* PurePath.parent
Parent(parts) == Slice(parts, 1, Len(parts) - 1)

\* PurePath.name
Name(parts) == IF parts = <<>> THEN <<>> ELSE parts[Len(parts)]

(***************************************************************************)
(* scripts/fix_canonical.py: build_canonical_for                           *)
(***************************************************************************)
\* re.sub(r"/{2,}", "/", s): every run of two or more slashes becomes one slash
RECURSIVE CollapseSlashes(_)
CollapseSlashes(s) ==
    IF Len(s) < 2 THEN s
    ELSE IF s[1] = "/" /\ s[2] = "/" THEN CollapseSlashes(Tail(s))
    ELSE <<s[1]>> \o CollapseSlashes(Tail(s))

\* the filename test of build_canonical_for (line 47), on path.name.lower()
fc_excluded(parts) ==
    LET name == Lower(Name(parts))
    IN \/ name = <<"4","0","4",".","h","t","m","l">>
       \/ StartsWith(name, <<"y","a","n","d","e","x","_">>)
       \/ StartsWith(name, <<"g","o","o","g","l","e">>)

\* build_canonical_for(path, base), path given relative to ROOT; "" is <<>>
build_canonical_for(parts, b) ==
    LET base0 == RStripSlash(b)
        relp == AsPosix(parts)
        url_path ==
            IF EndsWith(relp, <<"i","n","d","e","x",".","h","t","m","l">>)
            THEN <<"/">> \o Slice(relp, 1, Len(relp) - 10)
            ELSE <<"/">> \o relp
    IN IF fc_excluded(parts) THEN <<>>
       ELSE base0 \o CollapseSlashes(url_path)

(***************************************************************************)
(* tools/generate_sitemap.py and tools/generate_rss.py: to_url             *)
(***************************************************************************)
\* xml.sax.saxutils.escape: & first, then > and <; none of the replacements
\* contains < or >, so it is a per-character map
escape(s) ==
    LET Escaped(c) ==
            CASE c = "&" -> <<"&","a","m","p",";">>
              [] c = "<" -> <<"&","l","t",";">>
              [] c = ">" -> <<"&","g","t",";">>
              [] OTHER -> <<c>>
    IN Concat([i \in 1..Len(s) |-> Escaped(s[i])])

\* the module-level BASE_URL of both generators: os.getenv(...).rstrip("/")
GeneratorBase(b) == RStripSlash(b)

\* generate_rss.to_url(rel): both branches end in the same two replacements
rss_to_url(parts, b) ==
    LET rel_posix == AsPosix(parts)
        url == IF EndsWith(rel_posix, <<"i","n","d","e","x",".","h","t","m","l">>)
               THEN <<"/">> \o RStripSlash(AsPosix(Parent(parts))) \o <<"/">>
               ELSE <<"/">> \o rel_posix
    IN Replace(Replace(GeneratorBase(b) \o url, <<"/","/">>, <<"/">>),
               <<":","/">>, <<":","/","/">>)

\* generate_sitemap.to_url(rel): the same URL, then XML-escaped
sitemap_to_url(parts, b) ==
    LET rel_posix == AsPosix(parts)
        url == IF EndsWith(rel_posix, <<"i","n","d","e","x",".","h","t","m","l">>)
               THEN <<"/">> \o RStripSlash(AsPosix(Parent(parts))) \o <<"/">>
               ELSE <<"/">> \o rel_posix
        full == Replace(Replace(GeneratorBase(b) \o url, <<"/","/">>, <<"/">>),
                        <<":","/">>, <<":","/","/">>)
    IN escape(full)

(***************************************************************************)
(* SpecUrl: one document path and one base URL, handed to the three        *)
(* canonicalizers in any order.                                            *)
(***************************************************************************)
\* every sequence over S of length at most n
SeqsUpTo(S, n) == UNION {[1..k -> S] : k \in 0..n}

\* document paths relative to ROOT: up to MaxDepth directories and a file name
RelPaths ==
    {d \o <<f>> :
        d \in SeqsUpTo({<<"a">>, <<"f","o","o">>}, MaxDepth),
        f \in {
             <<"i","n","d","e","x",".","h","t","m","l">>,
             <<"m","y","i","n","d","e","x",".","h","t","m","l">>,
             <<"p",".","h","t","m","l">>,
             <<"q","&","a",".","h","t","m","l">>,
             <<"4","0","4",".","h","t","m","l">>,
             <<"G","o","o","g","l","e","1",".","h","t","m","l">>,
             <<"y","a","n","d","e","x","_","1",".","h","t","m","l">> }}

\* base URLs: plain, with a trailing slash, and with a path under http
BaseUrls == {
    <<"h","t","t","p","s",":","/","/","x",".","i","o">>,
    <<"h","t","t","p","s",":","/","/","x",".","i","o","/">>,
    <<"h","t","t","p",":","/","/","x",".","i","o","/","s">> }

UrlStart ==
    /\ rel \in RelPaths
    /\ base \in BaseUrls
    /\ urlDone = {}
    /\ canon = <<>>
    /\ smLoc = <<>>
    /\ rssLink = <<>>
    /\ BaseIdle
    /\ FcIdle
    /\ ImIdle
    /\ GenIdle

\* fix_canonical.main, line 108
BuildCanonicalFor ==
    /\ "fc" \notin urlDone
    /\ canon' = build_canonical_for(rel, base)
    /\ urlDone' = urlDone \cup {"fc"}
    /\ UNCHANGED <<rel, base, smLoc, rssLink, baseVars, fcVars, imVars, genVars>>

\* generate_sitemap.collect, line 99
SitemapToUrl ==
    /\ "sm" \notin urlDone
    /\ smLoc' = sitemap_to_url(rel, base)
    /\ urlDone' = urlDone \cup {"sm"}
    /\ UNCHANGED <<rel, base, canon, rssLink, baseVars, fcVars, imVars, genVars>>

\* generate_rss.collect_items, line 127
RssToUrl ==
    /\ "rss" \notin urlDone
    /\ rssLink' = rss_to_url(rel, base)
    /\ urlDone' = urlDone \cup {"rss"}
    /\ UNCHANGED <<rel, base, canon, smLoc, baseVars, fcVars, imVars, genVars>>

SpecUrl ==
    UrlStart /\ [][BuildCanonicalFor \/ SitemapToUrl \/ RssToUrl]_vars

\* the path is dir/index.html for some directory dir (the root included)
IsDirectoryIndex == Name(rel) = <<"i","n","d","e","x",".","h","t","m","l">>

\* <base>/d/ for the directory d of the document, <base>/ for the root
DirectoryUrl ==
    IF Parent(rel) = <<>> THEN RStripSlash(base) \o <<"/">>
    ELSE RStripSlash(base) \o <<"/">> \o Join(Parent(rel), <<"/">>) \o <<"/">>

\* C10: for every directory d, the root included, d/index.html maps to
\* <base>/d/ (the root: <base>/) in build_canonical_for and in both to_url.
C10_DirectoryIndexCollapses ==
    IsDirectoryIndex =>
        /\ ("fc" \in urlDone => canon = DirectoryUrl)
        /\ ("sm" \in urlDone => smLoc = DirectoryUrl)
        /\ ("rss" \in urlDone => rssLink = DirectoryUrl)

\* <base>/<relative path>, the base without its trailing slashes
PathUrl == RStripSlash(base) \o <<"/">> \o AsPosix(rel)

\* C12: for every path that build_canonical_for does not exclude and whose
\* final segment is not exactly index.html (myindex.html included), the
\* result is <base>/<relative path>, the path unchanged.
C12_OtherPathsUnchanged ==
    ("fc" \in urlDone /\ ~fc_excluded(rel) /\ ~IsDirectoryIndex)
    => canon = PathUrl

(***************************************************************************)
(* Base-URL resolution: fix_canonical.detect_base_url with main's          *)
(* "BASE_URL or detect_base_url()", and generate_pages.detect_base_url.    *)
(* A resolution ends "ok" with a URL, "exit" (SystemExit: nothing          *)
(* resolved) or "raise" (an uncaught IndexError): see Ok, Exit, Raise.      *)
(***************************************************************************)
\* os.environ.get("GITHUB_REPOSITORY", "")
RepoEnv(set, owner, name) == IF set THEN owner \o <<"/">> \o name ELSE <<>>

\* (REPO.split("/", 1) + [""])[:2]  (fix_canonical, line 10)
SplitOwnerName(repo) ==
    LET i == Find(repo, <<"/">>, 1)
    IN IF i = 0 THEN <<repo, <<>>>>
       ELSE <<Slice(repo, 1, i - 1), Slice(repo, i + 1, Len(repo))>>

\* str.splitlines(): the line boundaries that can occur here are \n, \r\n and \r
FirstLineEnd(s) ==
    LET ends == {i \in 1..Len(s) : s[i] \in {"\n", "\r"}}
    IN IF ends = {} THEN Len(s) ELSE SetMin(ends) - 1

\* text.strip().splitlines()[0].strip(); splitlines() of "" is [], and [0]
\* then raises IndexError
MarkerRaises(text) == Strip(text) = <<>>
MarkerFirstLine(text) == Strip(Slice(Strip(text), 1, FirstLineEnd(Strip(text))))

\* fc_repo_rules with the project-site rule tried before the user-site rule
fc_repo_rules_project_first(owner, name) ==
    IF owner # <<>> /\ name # <<>>
    THEN <<"h","t","t","p","s",":","/","/">> \o owner
             \o <<".","g","i","t","h","u","b",".","i","o","/">> \o name
    ELSE IF EndsWith(name, <<".","g","i","t","h","u","b",".","i","o">>)
    THEN <<"h","t","t","p","s",":","/","/">> \o name
    ELSE <<>>

\* the rules of fix_canonical.detect_base_url after the CNAME rule (lines 26-35)
fc_repo_rules(owner, name) ==
    IF EndsWith(name, <<".","g","i","t","h","u","b",".","i","o">>)
    THEN <<"h","t","t","p","s",":","/","/">> \o name
    ELSE IF owner # <<>> /\ name # <<>>
    THEN <<"h","t","t","p","s",":","/","/">> \o owner
             \o <<".","g","i","t","h","u","b",".","i","o","/">> \o name
    ELSE <<>>

\* fix_canonical.detect_base_url()
fc_detect_base_url(exists, text, repo) ==
    LET on == SplitOwnerName(repo)
        domain == MarkerFirstLine(text)
    IN IF exists /\ MarkerRaises(text) THEN Raise
       ELSE IF exists /\ domain # <<>>
       THEN IF ~StartsWith(domain, <<"h","t","t","p">>)
            THEN Ok(<<"h","t","t","p","s",":","/","/">> \o domain)
            ELSE Ok(domain)
       ELSE Ok(fc_repo_rules(on[1], on[2]))

\* fc_resolve with detect_base_url() asked before BASE_URL
fc_resolve_marker_first(envBase, exists, text, repo) ==
    LET BASE_URL == Strip(envBase)
        detected == fc_detect_base_url(exists, text, repo)
    IN IF detected.kind = "raise" THEN Raise
       ELSE IF detected.url # <<>> THEN detected
       ELSE IF BASE_URL # <<>> THEN Ok(BASE_URL)
       ELSE Exit

\* fc_resolve without the "if not base: raise SystemExit" of line 93
fc_resolve_no_exit(envBase, exists, text, repo) ==
    LET BASE_URL == Strip(envBase)
        detected == fc_detect_base_url(exists, text, repo)
    IN IF BASE_URL # <<>> THEN Ok(BASE_URL)
       ELSE IF detected.kind = "raise" THEN Raise
       ELSE detected

\* fix_canonical.main, lines 92-94: base = BASE_URL or detect_base_url(), and
\* SystemExit when base is empty; BASE_URL is the stripped environment value
fc_resolve(envBase, exists, text, repo) ==
    LET BASE_URL == Strip(envBase)
        detected == fc_detect_base_url(exists, text, repo)
    IN IF BASE_URL # <<>> THEN Ok(BASE_URL)
       ELSE IF detected.kind = "raise" THEN Raise
       ELSE IF detected.url = <<>> THEN Exit
       ELSE detected

\* the repository rule of generate_pages.detect_base_url (lines 36-44)
gp_repo_rules(repo) ==
    LET on == SplitOwnerName(repo)
    IN IF EndsWith(on[2], <<".","g","i","t","h","u","b",".","i","o">>)
       THEN RStripSlash(<<"h","t","t","p","s",":","/","/">> \o on[2])
       ELSE RStripSlash(<<"h","t","t","p","s",":","/","/">> \o on[1]
                \o <<".","g","i","t","h","u","b",".","i","o","/">> \o on[2])

\* generate_pages.detect_base_url()
gp_detect_base_url(envDomain, exists, text, repo) ==
    LET host == MarkerFirstLine(text)
        env_domain == RStripSlash(Strip(envDomain))
    IN IF exists /\ MarkerRaises(text) THEN Raise
       ELSE IF exists /\ host # <<>>
       THEN Ok(RStripSlash(<<"h","t","t","p","s",":","/","/">> \o host))
       ELSE IF StartsWith(env_domain, <<"h","t","t","p">>) THEN Ok(env_domain)
       ELSE IF Contains(repo, <<"/">>) THEN Ok(gp_repo_rules(repo))
       ELSE Ok(<<"h","t","t","p","s",":","/","/","d","o","s","t","u","p","-",
                 "w","o","r","l","d",".","g","i","t","h","u","b",".","i","o">>)

(***************************************************************************)
(* SpecBase: one environment, resolved by both scripts.                    *)
(***************************************************************************)
\* an environment: the unset GITHUB_REPOSITORY and the missing CNAME once each
EnvInit ==
    /\ envBaseUrl \in {
          <<>>,
          <<" ">>,
          <<"h","t","t","p","s",":","/","/","o",".","i","o">>,
          <<"o",".","i","o">> }
    /\ envSiteDomain \in {
          <<>>,
          <<"h","t","t","p","s",":","/","/","s",".","i","o","/">>,
          <<"s",".","i","o">> }
    /\ repoSet \in BOOLEAN
    /\ repoOwner \in (IF repoSet THEN {<<>>, <<"a","c">>} ELSE {<<>>})
    /\ repoName \in (IF repoSet
                     THEN {
                          <<>>,
                          <<"w">>,
                          <<"a","c",".","g","i","t","h","u","b",".","i","o">>,
                          <<"w",".","g","i","t","h","u","b",".","i","o">> }
                     ELSE {<<>>})
    /\ cnameExists \in BOOLEAN
    /\ cnameText \in (IF cnameExists
                      THEN {
                           <<"c",".","i","o","\n">>,
                           <<"h","t","t","p",":","/","/","c",".","i","o">>,
                           <<"\n">> }
                      ELSE {<<>>})

BaseStart ==
    /\ EnvInit
    /\ fcBase = Unresolved
    /\ gpBase = Unresolved
    /\ UrlIdle
    /\ FcIdle
    /\ ImIdle
    /\ GenIdle

\* fix_canonical.main up to line 100: the base URL is resolved (or the run
\* ends), then rglob lists the tree
FcResolve ==
    /\ fcPc = "start"
    /\ fcBase' = fc_resolve(envBaseUrl, cnameExists, cnameText,
                            RepoEnv(repoSet, repoOwner, repoName))
    /\ fcPc' = CASE fcBase'.kind = "ok" -> "loop"
                [] fcBase'.kind = "exit" -> "exit"
                [] OTHER -> "raise"
    /\ fcTodo' = IF fcBase'.kind = "ok" THEN DOMAIN fcText ELSE {}
    /\ UNCHANGED <<envBaseUrl, envSiteDomain, repoSet, repoOwner, repoName,
                   cnameExists, cnameText, gpBase, urlVars, imVars, genVars>>
    /\ UNCHANGED <<fcText, fcUnreadable, fcUnwritable, fcRun, fcChanged, fcSkipped,
                   fcPrev, fcReads, fcWrites>>

\* generate_pages, line 48: BASE_URL = detect_base_url()
GpResolve ==
    /\ gpBase = Unresolved
    /\ gpBase' = gp_detect_base_url(envSiteDomain, cnameExists, cnameText,
                                    RepoEnv(repoSet, repoOwner, repoName))
    /\ UNCHANGED <<envBaseUrl, envSiteDomain, repoSet, repoOwner, repoName,
                   cnameExists, cnameText, fcBase, urlVars, fcVars, imVars, genVars>>

SpecBase ==
    BaseStart /\ [][FcResolve \/ GpResolve]_vars

\* the override with the default scheme prefixed when it has none
WithDefaultScheme(u) ==
    IF StartsWith(u, <<"h","t","t","p">>) THEN u
    ELSE <<"h","t","t","p","s",":","/","/">> \o u

NoOverrideNoMarker ==
    /\ Strip(envBaseUrl) = <<>>
    /\ ~StartsWith(Strip(envSiteDomain), <<"h","t","t","p">>)
    /\ ~cnameExists
    /\ repoSet

\* what C8 expects of the repository identifier repoOwner/repoName
RepoConventionUrl ==
    IF EndsWith(repoName, <<".","g","i","t","h","u","b",".","i","o">>)
    THEN <<"h","t","t","p","s",":","/","/">> \o repoName
    ELSE <<"h","t","t","p","s",":","/","/">> \o repoOwner
             \o <<".","g","i","t","h","u","b",".","i","o","/">> \o repoName

\* C8: with no override and no marker file, a repository identifier whose
\* name ends with .github.io resolves to https://<name>, and otherwise, owner
\* and name both non-empty, to https://<owner>.github.io/<name>, in both
\* scripts; the user-site rule comes first.
C8_RepositoryConvention ==
    (/\ NoOverrideNoMarker
     /\ \/ EndsWith(repoName, <<".","g","i","t","h","u","b",".","i","o">>)
        \/ (repoOwner # <<>> /\ repoName # <<>>))
    => /\ fcBase # Unresolved => fcBase = Ok(RepoConventionUrl)
       /\ gpBase # Unresolved => gpBase = Ok(RepoConventionUrl)

\* both scripts have resolved a user site whose name is not the owner's
C8_Witness ==
    /\ NoOverrideNoMarker
    /\ repoOwner = <<"a","c">>
    /\ repoName = <<"w",".","g","i","t","h","u","b",".","i","o">>
    /\ fcBase = Ok(<<"h","t","t","p","s",":","/","/","w",".","g","i","t","h","u","b",".","i","o">>)
    /\ gpBase = fcBase

\* the marker file exists and holds no non-empty line
BlankMarker == cnameExists /\ Strip(cnameText) = <<>>

\* C17: a marker file that exists but is empty or all whitespace does not
\* make the resolution fail: both scripts resolve what they would resolve
\* with no marker file at all (the next signal in their order).
C17_BlankMarkerFallsThrough ==
    BlankMarker =>
        /\ fcBase # Unresolved
             => fcBase = fc_resolve(envBaseUrl, FALSE, <<>>,
                                    RepoEnv(repoSet, repoOwner, repoName))
        /\ gpBase # Unresolved
             => gpBase = gp_detect_base_url(envSiteDomain, FALSE, <<>>,
                                            RepoEnv(repoSet, repoOwner, repoName))

(***************************************************************************)
(* scripts/fix_canonical.py: ensure_canonical.  Each regular expression is *)
(* computed as re does it: leftmost match first, greedy with backtracking, *)
(* then on from the end of the match.                                      *)
(***************************************************************************)
Quotes == {"'", "\""}

\* the first position >= from holding the character c, 0 when none
FirstChar(s, c, from) ==
    LET hits == {i \in from..Len(s) : s[i] = c}
    IN IF hits = {} THEN 0 ELSE SetMin(hits)

\* the first position >= from holding a quote, 0 when none
FirstQuote(s, from) ==
    LET hits == {i \in from..Len(s) : s[i] \in Quotes}
    IN IF hits = {} THEN 0 ELSE SetMin(hits)

\* the literal p (given in lower case) at position i of s under (?i)
LitAt(s, p, i) ==
    /\ i >= 1
    /\ i + Len(p) - 1 <= Len(s)
    /\ \A k \in 1..Len(p) : LowerChar(s[i + k - 1]) = p[k]

\* rel=['"]canonical['"] at position k (15 characters)
RelCanonicalAt(s, k) ==
    /\ LitAt(s, <<"r","e","l","=">>, k)
    /\ k + 14 <= Len(s)
    /\ s[k + 4] \in Quotes
    /\ LitAt(s, <<"c","a","n","o","n","i","c","a","l">>, k + 5)
    /\ s[k + 14] \in Quotes

\* (?is)<link[^>]+rel=['"]canonical['"][^>]*> matched at position i: the
\* position of its last character, 0 when it does not match there.  Nothing
\* the pattern matches before its final ">" is a ">", so the match ends at
\* the first ">" after "<link", with the rel attribute somewhere before it
\* and at least one character after "<link".
CanonicalTagEnd(s, i) ==
    LET g == FirstChar(s, ">", i + 5)
    IN IF /\ LitAt(s, <<"<","l","i","n","k">>, i)
          /\ g # 0
          /\ \E k \in (i + 6)..(g - 15) : RelCanonicalAt(s, k)
       THEN g ELSE 0

\* the start of the leftmost match at or after from, 0 when none
NextCanonicalTag(s, from) ==
    LET hits == {i \in from..Len(s) : CanonicalTagEnd(s, i) # 0}
    IN IF hits = {} THEN 0 ELSE SetMin(hits)

\* line 66: re.sub(<canonical link>, '', html)
RECURSIVE RemoveCanonicalTags(_)
RemoveCanonicalTags(s) ==
    LET i == NextCanonicalTag(s, 1)
    IN IF i = 0 THEN s
       ELSE Slice(s, 1, i - 1)
              \o RemoveCanonicalTags(Slice(s, CanonicalTagEnd(s, i) + 1, Len(s)))

\* (?is)</head\s*> matched at position i
HeadCloseAt(s, i) ==
    /\ LitAt(s, <<"<","/","h","e","a","d">>, i)
    /\ \E e \in (i + 6)..Len(s) :
          /\ s[e] = ">"
          /\ \A j \in (i + 6)..(e - 1) : s[j] \in Whitespace

\* line 72: re.search(r'(?is)</head\s*>', html).start(), 0 when no match
HeadCloseStart(s) ==
    LET hits == {i \in 1..Len(s) : HeadCloseAt(s, i)}
    IN IF hits = {} THEN 0 ELSE SetMin(hits)

\* name=['"]robots['"] at position k (13 characters)
NameRobotsAt(s, k) ==
    /\ LitAt(s, <<"n","a","m","e","=">>, k)
    /\ k + 12 <= Len(s)
    /\ s[k + 5] \in Quotes
    /\ LitAt(s, <<"r","o","b","o","t","s">>, k + 6)
    /\ s[k + 12] \in Quotes

\* content=['"]https?:// at position k: the position after it, 0 when it
\* does not match there
ContentUrlEnd(s, k) ==
    IF /\ LitAt(s, <<"c","o","n","t","e","n","t","=">>, k)
       /\ k + 8 <= Len(s)
       /\ s[k + 8] \in Quotes
       /\ LitAt(s, <<"h","t","t","p">>, k + 9)
    THEN IF LitAt(s, <<"s",":","/","/">>, k + 13) THEN k + 17
         ELSE IF LitAt(s, <<":","/","/">>, k + 13) THEN k + 16
         ELSE 0
    ELSE 0

\* the rest of the robots pattern from the URL's first character at c:
\* [^'"]+['"][^>]*> ; the position of the final ">", 0 when it does not match
RobotsTail(s, c) ==
    LET q == FirstQuote(s, c)
    IN IF c > Len(s) \/ q = 0 \/ q = c THEN 0 ELSE FirstChar(s, ">", q + 1)

\* (?is)<meta[^>]+name=['"]robots['"][^>]+content=['"]https?://[^'"]+['"][^>]*>
\* matched at position i: the position of its last character, 0 when it does
\* not match there.  "<meta" up to "://" holds no ">", so it lies before the
\* first ">" after "<meta" (g); the URL may hold one.  Both [^>]+ are greedy:
\* of the content attributes that lead to a match, the last one is taken.
RobotsMetaEnd(s, i) ==
    LET g == FirstChar(s, ">", i + 5)
        ok(k2) == /\ ContentUrlEnd(s, k2) # 0
                  /\ ContentUrlEnd(s, k2) <= g
                  /\ RobotsTail(s, ContentUrlEnd(s, k2)) # 0
                  /\ \E k1 \in (i + 6)..(k2 - 14) : NameRobotsAt(s, k1)
        k2s == {k2 \in (i + 20)..g : ok(k2)}
    IN IF LitAt(s, <<"<","m","e","t","a">>, i) /\ g # 0 /\ k2s # {}
       THEN RobotsTail(s, ContentUrlEnd(s, SetMax(k2s)))
       ELSE 0

NextRobotsMeta(s, from) ==
    LET hits == {i \in from..Len(s) : RobotsMetaEnd(s, i) # 0}
    IN IF hits = {} THEN 0 ELSE SetMin(hits)

\* lines 79-82: re.sub(<robots meta holding a URL>, <the safe default>, html)
RECURSIVE RepairRobots(_)
RepairRobots(s) ==
    LET i == NextRobotsMeta(s, 1)
    IN IF i = 0 THEN s
       ELSE Slice(s, 1, i - 1)
              \o <<"<","m","e","t","a"," ","n","a","m","e","=","\"","r","o","b","o","t","s","\"",
                   " ","c","o","n","t","e","n","t","=","\"","i","n","d","e","x",","," ",
                   "f","o","l","l","o","w","\"",">">>
              \o RepairRobots(Slice(s, RobotsMetaEnd(s, i) + 1, Len(s)))

\* line 69: f'<link rel="canonical" href="{canonical_url}">'
CanonicalTag(url) ==
    <<"<","l","i","n","k"," ","r","e","l","=","\"","c","a","n","o","n","i","c","a","l","\"",
      " ","h","r","e","f","=","\"">> \o url \o <<"\"",">">>

\* ensure_canonical(html, canonical_url)
ensure_canonical(html, canonical_url) ==
    LET cleaned == RemoveCanonicalTags(html)
        tag == CanonicalTag(canonical_url)
        pos == HeadCloseStart(cleaned)
        withTag == IF pos # 0
                   THEN Slice(cleaned, 1, pos - 1) \o tag \o <<"\n">>
                          \o Slice(cleaned, pos, Len(cleaned))
                   ELSE cleaned
        repaired == RepairRobots(withTag)
    IN IF pos = 0 THEN tag \o <<"\n">> \o repaired ELSE repaired

(***************************************************************************)
(* SpecCanon: fix_canonical.main over a tree of three HTML files, run      *)
(* after run.                                                              *)
(***************************************************************************)
\* the files of the tree, relative to ROOT
FcPaths == <<
    << <<"i","n","d","e","x",".","h","t","m","l">> >>,
    << <<"a">>, <<"p",".","h","t","m","l">> >>,
    << <<"4","0","4",".","h","t","m","l">> >> >>

\* fragments of HTML: two stale canonical links, the closing head tag, a
\* robots meta whose content is a URL and whose ">" is missing, and a ">"
DocPieces == {
    <<"<","l","i","n","k"," ","r","e","l","=","\"","c","a","n","o","n","i","c","a","l","\"",
      " ","h","r","e","f","=","\"","h","t","t","p","s",":","/","/","o",".","i","o","/","\"",">">>,
    <<"<","L","I","N","K"," ","h","r","e","f","=","'","/","x","'"," ","R","E","L","=","'",
      "c","a","n","o","n","i","c","a","l","'","/",">">>,
    <<"<","/","h","e","a","d",">">>,
    <<"<","m","e","t","a"," ","n","a","m","e","=","\"","r","o","b","o","t","s","\""," ",
      "c","o","n","t","e","n","t","=","\"","h","t","t","p","s",":","/","/","x","\"">>,
    <<">">> }

\* <HEAD></HEAD > and a page with a stale canonical link
SmallDocs == {
    <<"<","H","E","A","D",">","<","/","H","E","A","D"," ",">">>,
    <<"<","h","e","a","d",">",
      "<","l","i","n","k"," ","r","e","l","=","\"","c","a","n","o","n","i","c","a","l","\"",
      " ","h","r","e","f","=","\"","h","t","t","p","s",":","/","/","o",".","i","o","/","\"",">",
      "<","/","h","e","a","d",">">> }

\* BASE_URL=https://o.io, no CNAME, no GITHUB_REPOSITORY
PlainEnv ==
    /\ envBaseUrl = <<"h","t","t","p","s",":","/","/","o",".","i","o">>
    /\ envSiteDomain = <<>>
    /\ repoSet = FALSE
    /\ repoOwner = <<>>
    /\ repoName = <<>>
    /\ cnameExists = FALSE
    /\ cnameText = <<>>

\* the tree: any document, any environment, any unreadable or unwritable
\* files, one of the three varied at a time
CanonStart ==
    /\ \/ /\ PlainEnv
          /\ fcText \in {<<Concat(ps), s, s>> : ps \in SeqsUpTo(DocPieces, MaxPieces),
                                             s \in SmallDocs}
          /\ fcUnreadable = {} /\ fcUnwritable = {}
       \/ /\ EnvInit
          /\ fcText \in {<<s, s, s>> : s \in SmallDocs}
          /\ fcUnreadable = {} /\ fcUnwritable = {}
       \/ /\ PlainEnv
          /\ fcText \in {<<s, s, s>> : s \in SmallDocs}
          /\ fcUnreadable \in SUBSET (1..3)
          /\ fcUnwritable \in SUBSET (1..3)
    /\ fcBase = Unresolved
    /\ gpBase = Unresolved
    /\ fcPc = "start"
    /\ fcRun = 1
    /\ fcTodo = {}
    /\ fcChanged = 0
    /\ fcSkipped = 0
    /\ fcPrev = fcText
    /\ fcReads = {}
    /\ fcWrites = {}
    /\ UrlIdle
    /\ ImIdle
    /\ GenIdle

\* main, lines 100-118: one file of the loop.  An unreadable file is counted
\* and skipped; an excluded one is skipped; the others are rewritten when
\* ensure_canonical changes them.  An exception of write_text is not caught.
FcFile(f) ==
    LET html == fcText[f]
        can_url == build_canonical_for(FcPaths[f], fcBase.url)
        new_html == ensure_canonical(html, can_url)
    IN /\ fcPc = "loop"
       /\ f \in fcTodo
       /\ fcTodo' = fcTodo \ {f}
       /\ IF f \in fcUnreadable
          THEN /\ fcSkipped' = fcSkipped + 1
               /\ UNCHANGED <<fcText, fcPc, fcChanged, fcReads, fcWrites>>
          ELSE /\ fcReads' = fcReads \cup {f}
               /\ fcSkipped' = fcSkipped
               /\ IF can_url = <<>> \/ new_html = html
                  THEN UNCHANGED <<fcText, fcPc, fcChanged, fcWrites>>
                  ELSE IF f \in fcUnwritable
                  THEN /\ fcPc' = "raise"
                       /\ UNCHANGED <<fcText, fcChanged, fcWrites>>
                  ELSE /\ fcText' = [fcText EXCEPT ![f] = new_html]
                       /\ fcChanged' = fcChanged + 1
                       /\ fcWrites' = fcWrites \cup {f}
                       /\ fcPc' = fcPc
       /\ UNCHANGED <<fcUnreadable, fcUnwritable, fcRun, fcPrev, baseVars, urlVars,
                    imVars, genVars>>

\* main, line 120: the loop is over, the summary is printed
FcSummary ==
    /\ fcPc = "loop"
    /\ fcTodo = {}
    /\ fcPc' = "done"
    /\ UNCHANGED <<fcText, fcUnreadable, fcUnwritable, fcRun, fcTodo, fcChanged,
                   fcSkipped, fcPrev, fcReads, fcWrites, baseVars, urlVars,
                   imVars, genVars>>

\* the script is started again over the tree the last run left
FcRerun ==
    /\ fcPc = "done"
    /\ fcRun < MaxRuns
    /\ fcPc' = "start"
    /\ fcRun' = fcRun + 1
    /\ fcBase' = Unresolved
    /\ fcChanged' = 0
    /\ fcSkipped' = 0
    /\ fcPrev' = fcText
    /\ fcReads' = {}
    /\ fcWrites' = {}
    /\ UNCHANGED <<fcText, fcUnreadable, fcUnwritable, fcTodo, urlVars,
                   envBaseUrl, envSiteDomain, repoSet, repoOwner, repoName,
                   cnameExists, cnameText, gpBase, imVars, genVars>>

SpecCanon ==
    CanonStart
      /\ [][FcResolve
            \/ (\E f \in 1..3 : FcFile(f))
            \/ FcSummary
            \/ FcRerun]_vars

\* C1: injecting the canonical link is idempotent: a second run of
\* fix_canonical over the tree the first run left reports no file as changed
\* and rewrites nothing.
C1_CanonicalIdempotent ==
    (fcPc = "done" /\ fcRun >= 2) => (fcChanged = 0 /\ fcText = fcPrev)

\* the canonical-link tags of a text, as the script's own pattern finds them
RECURSIVE CanonicalTags(_)
CanonicalTags(s) ==
    LET i == NextCanonicalTag(s, 1)
    IN IF i = 0 THEN <<>>
       ELSE <<Slice(s, i, CanonicalTagEnd(s, i))>>
              \o CanonicalTags(Slice(s, CanonicalTagEnd(s, i) + 1, Len(s)))

\* C3: once ensure_canonical has been applied to a document, it holds
\* exactly one canonical-link tag, and that tag's href is the document's
\* canonical URL.
C3_ExactlyOneCanonical ==
    \A f \in fcReads :
        build_canonical_for(FcPaths[f], fcBase.url) # <<>> /\ fcPc # "raise"
        => CanonicalTags(fcText[f])
             = <<CanonicalTag(build_canonical_for(FcPaths[f], fcBase.url))>>

\* C9: when nothing resolves a base URL (no BASE_URL, no CNAME, no usable
\* GITHUB_REPOSITORY), fix_canonical ends with SystemExit before it reads or
\* writes any document: the tree is as it was.
C9_FatalBeforeAnyFile ==
    (/\ fcPc # "start"
     /\ Strip(envBaseUrl) = <<>>
     /\ ~cnameExists
     /\ ~EndsWith(repoName, <<".","g","i","t","h","u","b",".","i","o">>)
     /\ (~repoSet \/ repoOwner = <<>> \/ repoName = <<>>))
    => /\ fcPc = "exit"
       /\ fcReads = {} /\ fcWrites = {}
       /\ fcText = fcPrev

\* a run has ended on an unresolved base URL, over a tree whose documents a
\* resolved run would rewrite
C9_Witness ==
    /\ fcPc = "exit"
    /\ repoSet /\ repoOwner = <<"a","c">> /\ repoName = <<>>
    /\ fcText # <<>>
    /\ \A f \in 1..2 : ensure_canonical(fcText[f], <<"u">>) # fcText[f]

\* C13: once the base URL is resolved, a file that cannot be read or cannot
\* be written does not end the run of fix_canonical: the run reaches its
\* summary, having counted every such file as skipped and read every other.
C13_FileFailureDoesNotAbort ==
    fcBase.kind = "ok" =>
        /\ fcPc # "raise"
        /\ fcPc = "done" =>
             /\ fcReads = (DOMAIN FcPaths) \ fcUnreadable
             /\ fcSkipped >= Cardinality(fcUnreadable)

(***************************************************************************)
(* tools/inject_metrika.py                                                 *)
(***************************************************************************)
\* TARGET_ID = "103602117"
TARGET_ID == <<"1","0","3","6","0","2","1","1","7">>

\* SNIPPET (lines 21-34), character by character
SNIPPET == <<
    "<","!","-","-"," ","Y","a","n","d","e","x",".","M","e","t","r","i","k","a"," ","c","o","u",
    "n","t","e","r"," ","-","-",">","\n","<","s","c","r","i","p","t"," ","t","y","p","e","=",
    "\"","t","e","x","t","/","j","a","v","a","s","c","r","i","p","t","\"",">","\n"," "," "," ",
    " ","(","f","u","n","c","t","i","o","n","(","m",",","e",",","t",",","r",",","i",",","k",",",
    "a",")","{","\n"," "," "," "," "," "," "," "," ","m","[","i","]","=","m","[","i","]","|",
    "|","f","u","n","c","t","i","o","n","(",")","{","(","m","[","i","]",".","a","=","m","[","i",
    "]",".","a","|","|","[","]",")",".","p","u","s","h","(","a","r","g","u","m","e","n","t","s",
    ")","}",";","\n"," "," "," "," "," "," "," "," ","m","[","i","]",".","l","=","1","*","n",
    "e","w"," ","D","a","t","e","(",")",";","\n"," "," "," "," "," "," "," "," ","f","o","r",
    " ","(","v","a","r"," ","j"," ","="," ","0",";"," ","j"," ","<"," ","d","o","c","u","m","e",
    "n","t",".","s","c","r","i","p","t","s",".","l","e","n","g","t","h",";"," ","j","+","+",")",
    " ","{","i","f"," ","(","d","o","c","u","m","e","n","t",".","s","c","r","i","p","t","s","[",
    "j","]",".","s","r","c"," ","=","=","="," ","r",")"," ","{"," ","r","e","t","u","r","n",";",
    " ","}","}","\n"," "," "," "," "," "," "," "," ","k","=","e",".","c","r","e","a","t","e",
    "E","l","e","m","e","n","t","(","t",")",",","a","=","e",".","g","e","t","E","l","e","m","e",
    "n","t","s","B","y","T","a","g","N","a","m","e","(","t",")","[","0","]",",","k",".","a","s",
    "y","n","c","=","1",",","k",".","s","r","c","=","r",",","a",".","p","a","r","e","n","t","N",
    "o","d","e",".","i","n","s","e","r","t","B","e","f","o","r","e","(","k",",","a",")","\n",
    " "," "," "," ","}",")","(","w","i","n","d","o","w",","," ","d","o","c","u","m","e","n","t",
    ",","'","s","c","r","i","p","t","'",",","'","h","t","t","p","s",":","/","/","m","c",".","y",
    "a","n","d","e","x",".","r","u","/","m","e","t","r","i","k","a","/","t","a","g",".","j","s",
    "?","i","d","=","1","0","3","6","0","2","1","1","7","'",","," ","'","y","m","'",")",";",
    "\n","\n"," "," "," "," ","y","m","(","1","0","3","6","0","2","1","1","7",","," ","'","i",
    "n","i","t","'",","," ","{","s","s","r",":","t","r","u","e",","," ","w","e","b","v","i","s",
    "o","r",":","t","r","u","e",","," ","c","l","i","c","k","m","a","p",":","t","r","u","e",",",
    " ","e","c","o","m","m","e","r","c","e",":","\"","d","a","t","a","L","a","y","e","r","\"",
    ","," ","a","c","c","u","r","a","t","e","T","r","a","c","k","B","o","u","n","c","e",":","t",
    "r","u","e",","," ","t","r","a","c","k","L","i","n","k","s",":","t","r","u","e","}",")",";",
    "\n","<","/","s","c","r","i","p","t",">","\n","<","n","o","s","c","r","i","p","t",">","<",
    "d","i","v",">","<","i","m","g"," ","s","r","c","=","\"","h","t","t","p","s",":","/","/",
    "m","c",".","y","a","n","d","e","x",".","r","u","/","w","a","t","c","h","/","1","0","3","6",
    "0","2","1","1","7","\""," ","s","t","y","l","e","=","\"","p","o","s","i","t","i","o","n",
    ":","a","b","s","o","l","u","t","e",";"," ","l","e","f","t",":","-","9","9","9","9","p","x",
    ";","\""," ","a","l","t","=","\"","\""," ","/",">","<","/","d","i","v",">","<","/","n","o",
    "s","c","r","i","p","t",">","\n","<","!","-","-"," ","/","Y","a","n","d","e","x",".","M",
    "e","t","r","i","k","a"," ","c","o","u","n","t","e","r"," ","-","-",">","\n" >>

\* the literal part of RE_TAG_JS and of RE_WATCH
TagJsPrefix ==
    <<"h","t","t","p","s",":","/","/","m","c",".","y","a","n","d","e","x",".","r","u","/",
      "m","e","t","r","i","k","a","/","t","a","g",".","j","s","?","i","d","=">>
WatchPrefix ==
    <<"h","t","t","p","s",":","/","/","m","c",".","y","a","n","d","e","x",".","r","u","/",
      "w","a","t","c","h","/">>

\* the end of the run of characters of class C that starts at from (from - 1
\* when the character at from is not of the class): a greedy C*
RECURSIVE RunEnd(_, _, _)
RunEnd(s, C, from) ==
    IF from > Len(s) \/ s[from] \notin C THEN from - 1 ELSE RunEnd(s, C, from + 1)

\* <prefix>(\d+) matched at position i: the position of its last digit, 0
\* when it does not match there
IdUrlEnd(s, prefix, i) ==
    IF OccursAt(s, prefix, i) /\ RunEnd(s, Digits, i + Len(prefix)) >= i + Len(prefix)
    THEN RunEnd(s, Digits, i + Len(prefix)) ELSE 0

NextIdUrl(s, prefix, from) ==
    LET hits == {i \in from..Len(s) : IdUrlEnd(s, prefix, i) # 0}
    IN IF hits = {} THEN 0 ELSE SetMin(hits)

\* the identifiers re.finditer(<prefix>(\d+)) yields, in order
RECURSIVE IdUrlIds(_, _)
IdUrlIds(s, prefix) ==
    LET i == NextIdUrl(s, prefix, 1)
        e == IdUrlEnd(s, prefix, i)
    IN IF i = 0 THEN <<>>
       ELSE <<Slice(s, i + Len(prefix), e)>> \o IdUrlIds(Slice(s, e + 1, Len(s)), prefix)

\* repl_tag and repl_watch (lines 51-65) under re.sub: a match whose
\* identifier is not TARGET_ID becomes m.group(0).replace(old, TARGET_ID)
RECURSIVE SubIdUrl(_, _)
SubIdUrl(s, prefix) ==
    LET i == NextIdUrl(s, prefix, 1)
        e == IdUrlEnd(s, prefix, i)
        old == Slice(s, i + Len(prefix), e)
        group0 == Slice(s, i, e)
    IN IF i = 0 THEN s
       ELSE Slice(s, 1, i - 1)
              \o (IF old # TARGET_ID THEN Replace(group0, old, TARGET_ID) ELSE group0)
              \o SubIdUrl(Slice(s, e + 1, Len(s)), prefix)

\* ym\(\s*<id>\s*,\s*'init' from the identifier's first character at d, the
\* identifier ending at e: the position of the final quote, 0 when no match
YmInitTail(s, e) ==
    LET comma == RunEnd(s, Whitespace, e + 1) + 1
        lit == RunEnd(s, Whitespace, comma + 1) + 1
    IN IF /\ comma <= Len(s)
          /\ s[comma] = ","
          /\ OccursAt(s, <<"'","i","n","i","t","'">>, lit)
       THEN lit + 5 ELSE 0

\* RE_YM_INIT, ym\(\s*(\d+)\s*,\s*'init', matched at position i: the position
\* of its last character, 0 when it does not match there
YmInitEnd(s, i) ==
    LET d == RunEnd(s, Whitespace, i + 3) + 1
        e == RunEnd(s, Digits, d)
    IN IF OccursAt(s, <<"y","m","(">>, i) /\ e >= d THEN YmInitTail(s, e) ELSE 0

\* the identifier of the RE_YM_INIT match at position i
YmInitId(s, i) ==
    LET d == RunEnd(s, Whitespace, i + 3) + 1
    IN Slice(s, d, RunEnd(s, Digits, d))

NextYmInit(s, from) ==
    LET hits == {i \in from..Len(s) : YmInitEnd(s, i) # 0}
    IN IF hits = {} THEN 0 ELSE SetMin(hits)

\* the identifiers re.finditer(RE_YM_INIT) yields, in order
RECURSIVE YmInitIds(_)
YmInitIds(s) ==
    LET i == NextYmInit(s, 1)
    IN IF i = 0 THEN <<>>
       ELSE <<YmInitId(s, i)>> \o YmInitIds(Slice(s, YmInitEnd(s, i) + 1, Len(s)))

\* line 78: RE_YM_INIT.sub(lambda m: f"ym({TARGET_ID}, 'init'", text)
RECURSIVE SubYmInit(_)
SubYmInit(s) ==
    LET i == NextYmInit(s, 1)
    IN IF i = 0 THEN s
       ELSE Slice(s, 1, i - 1)
              \o <<"y","m","(">> \o TARGET_ID \o <<","," ","'","i","n","i","t","'">>
              \o SubYmInit(Slice(s, YmInitEnd(s, i) + 1, Len(s)))

\* re.search(rf"ym\(\s*{TARGET_ID}\s*,\s*'init'", text) is not None
HasYmInitTarget(s) ==
    \E i \in 1..Len(s) :
        LET d == RunEnd(s, Whitespace, i + 3) + 1
        IN /\ OccursAt(s, <<"y","m","(">>, i)
           /\ OccursAt(s, TARGET_ID, d)
           /\ YmInitTail(s, d + Len(TARGET_ID) - 1) # 0

\* has_target_id without the test of the image URL
has_target_id_no_watch(text) ==
    \/ Contains(text, <<"m","e","t","r","i","k","a","/","t","a","g",".","j","s","?","i","d","=">>
                        \o TARGET_ID)
    \/ HasYmInitTarget(text)

\* has_target_id(text)
has_target_id(text) ==
    \/ Contains(text, <<"m","e","t","r","i","k","a","/","t","a","g",".","j","s","?","i","d","=">>
                        \o TARGET_ID)
    \/ Contains(text, <<"w","a","t","c","h","/">> \o TARGET_ID)
    \/ HasYmInitTarget(text)

\* replace_other_id(text): <<text_new, changed>>.  changed is set by repl_tag
\* and repl_watch only: line 78 substitutes with a lambda, not with repl_init
replace_other_id(text) ==
    LET afterTag == SubIdUrl(text, TagJsPrefix)
        afterWatch == SubIdUrl(afterTag, WatchPrefix)
        tagIds == IdUrlIds(text, TagJsPrefix)
        watchIds == IdUrlIds(afterTag, WatchPrefix)
        changed ==
            \/ \E k \in DOMAIN tagIds : tagIds[k] # TARGET_ID
            \/ \E k \in DOMAIN watchIds : watchIds[k] # TARGET_ID
    IN <<SubYmInit(afterWatch), changed>>

\* where inject(text) inserts: at the index, in text.lower(), of the last
\* </head>, else of the last </body>, else after the end; the index is then
\* used in text itself
InsertAt(text) ==
    LET lower == str_lower(text)
        head_idx == RFind(lower, <<"<","/","h","e","a","d",">">>)
        body_idx == RFind(lower, <<"<","/","b","o","d","y",">">>)
    IN IF head_idx # 0 THEN head_idx
       ELSE IF body_idx # 0 THEN body_idx
       ELSE Len(text) + 1

\* inject(text): the new text (injected is always True)
inject(text) ==
    LET at == InsertAt(text)
        \* a slice bound past the end of text is the end of text
        insert_at == IF at > Len(text) THEN Len(text) + 1 ELSE at
    IN Slice(text, 1, insert_at - 1) \o <<"\n">> \o SNIPPET \o <<"\n">>
         \o Slice(text, insert_at, Len(text))

\* the per-file step of main (lines 121-140): what the file is counted as,
\* and the text written for it
im_kind(text) ==
    IF has_target_id(text) THEN "skip"
    ELSE IF replace_other_id(text)[2] THEN "update"
    ELSE "add"
im_result(text) ==
    IF has_target_id(text) THEN text
    ELSE IF replace_other_id(text)[2] THEN replace_other_id(text)[1]
    ELSE inject(text)

\* im_written with the "if not args.dry_run" guards left out
im_written_always(text, dry) == im_result(text)

\* what the file holds after its step: p.write_text(...) runs only under
\* "if not args.dry_run" (lines 131-132 and 139-140)
im_written(text, dry) == IF dry THEN text ELSE im_result(text)


(***************************************************************************)
(* SpecMetrika: inject_metrika.main over a tree of three files, run after  *)
(* run, each run with or without --dry-run.                                *)
(***************************************************************************)
\* the files rglob finds, relative to root
ImPaths == <<
    << <<"i","n","d","e","x",".","h","t","m","l">> >>,
    << <<"a">>, <<"p",".","h","t","m">> >>,
    << <<"n","o","d","e","_","m","o","d","u","l","e","s">>, <<"x",".","h","t","m","l">> >> >>

\* line 110: the files whose parts hold neither node_modules nor .git
ImListed ==
    {f \in DOMAIN ImPaths :
        \A k \in DOMAIN ImPaths[f] :
            /\ ImPaths[f][k] # <<"n","o","d","e","_","m","o","d","u","l","e","s">>
            /\ ImPaths[f][k] # <<".","g","i","t">>}

\* fragments of HTML: the script URL with the target and with another
\* identifier, the image URL with another identifier and with the target,
\* the init call with another identifier, and the two closing tags
IdPieces == {
    <<"h","t","t","p","s",":","/","/","m","c",".","y","a","n","d","e","x",".","r","u",
      "/","m","e","t","r","i","k","a","/","t","a","g",".","j","s","?","i","d","=","1",
      "0","3","6","0","2","1","1","7","9">>,
    <<"h","t","t","p","s",":","/","/","m","c",".","y","a","n","d","e","x",".","r","u",
      "/","m","e","t","r","i","k","a","/","t","a","g",".","j","s","?","i","d","=","9",
      "9","9">>,
    <<"h","t","t","p","s",":","/","/","m","c",".","y","a","n","d","e","x",".","r","u",
      "/","w","a","t","c","h","/","9","9","9">>,
    <<"h","t","t","p","s",":","/","/","m","c",".","y","a","n","d","e","x",".","r","u",
      "/","w","a","t","c","h","/","1","0","3","6","0","2","1","1","7","9">>,
    <<"y","m","(","9","9","9",","," ","'","i","n","i","t","'">>,
    <<"<","/","h","e","a","d",">">>,
    <<"<","/","B","O","D","Y",">">> }

\* a page that already carries the image URL of the target counter
CountedDoc ==
    <<"h","t","t","p","s",":","/","/","m","c",".","y","a","n","d","e","x",".","r","u",
      "/","w","a","t","c","h","/","1","0","3","6","0","2","1","1","7","9">>

\* fragments of pages without a counter: the closing tags in either case,
\* and the letter U+0130
AnchorPieces == {
    <<"<","/","h","e","a","d",">">>,
    <<"<","/","H","e","a","d",">">>,
    <<"<","/","B","O","D","Y",">">>,
    <<"U+0130">> }

MetrikaStart ==
    /\ imText \in {<<Concat(ps), CountedDoc, <<>> >> :
                     ps \in SeqsUpTo(IdPieces, MaxPieces) \cup SeqsUpTo(AnchorPieces, MaxPieces)}
    /\ imDry = FALSE
    /\ imPc = "start"
    /\ imRun = 1
    /\ imTodo = {}
    /\ imAdded = 0
    /\ imUpdated = 0
    /\ imSkipped = 0
    /\ imTouched = <<>>
    /\ imKind = [f \in DOMAIN ImPaths |-> "none"]
    /\ imPrev = imText
    /\ imPrevKind = [f \in DOMAIN ImPaths |-> "none"]
    /\ imPrevDry = FALSE
    /\ UrlIdle
    /\ BaseIdle
    /\ FcIdle
    /\ GenIdle

\* main, lines 102-113: the arguments are parsed, the files are listed, the
\* counters are zeroed
ImStart ==
    /\ imPc = "start"
    /\ imDry' \in BOOLEAN
    /\ imTodo' = ImListed
    /\ imPc' = "loop"
    /\ imAdded' = 0
    /\ imUpdated' = 0
    /\ imSkipped' = 0
    /\ imTouched' = <<>>
    /\ imKind' = [f \in DOMAIN ImPaths |-> "none"]
    /\ UNCHANGED <<imText, imRun, imPrev, imPrevKind, imPrevDry,
                   urlVars, baseVars, fcVars, genVars>>

\* main, lines 115-140: one file of the loop
ImFile(f) ==
    LET text == imText[f]
        kind == im_kind(text)
    IN /\ imPc = "loop"
       /\ f \in imTodo
       /\ imTodo' = imTodo \ {f}
       /\ imKind' = [imKind EXCEPT ![f] = kind]
       /\ imSkipped' = IF kind = "skip" THEN imSkipped + 1 ELSE imSkipped
       /\ imUpdated' = IF kind = "update" THEN imUpdated + 1 ELSE imUpdated
       /\ imAdded' = IF kind = "add" THEN imAdded + 1 ELSE imAdded
       /\ imTouched' = IF kind = "skip" THEN imTouched
                       ELSE Append(imTouched, <<kind, f>>)
       /\ imText' = [imText EXCEPT ![f] = im_written(text, imDry)]
       /\ UNCHANGED <<imDry, imPc, imRun, imPrev, imPrevKind, imPrevDry,
                      urlVars, baseVars, fcVars, genVars>>

\* main, lines 142-146: the loop is over, the summary is printed
ImSummary ==
    /\ imPc = "loop"
    /\ imTodo = {}
    /\ imPc' = "done"
    /\ UNCHANGED <<imText, imDry, imRun, imTodo, imAdded, imUpdated, imSkipped,
                   imTouched, imKind, imPrev, imPrevKind, imPrevDry,
                   urlVars, baseVars, fcVars, genVars>>

\* the script is started again over the tree the last run left
ImRerun ==
    /\ imPc = "done"
    /\ imRun < MaxRuns
    /\ imPc' = "start"
    /\ imRun' = imRun + 1
    /\ imPrev' = imText
    /\ imPrevKind' = imKind
    /\ imPrevDry' = imDry
    /\ imAdded' = 0
    /\ imUpdated' = 0
    /\ imSkipped' = 0
    /\ imTouched' = <<>>
    /\ imKind' = [f \in DOMAIN ImPaths |-> "none"]
    /\ UNCHANGED <<imText, imDry, imTodo, urlVars, baseVars, fcVars, genVars>>

SpecMetrika ==
    MetrikaStart
      /\ [][ImStart
            \/ (\E f \in DOMAIN ImPaths : ImFile(f))
            \/ ImSummary
            \/ ImRerun]_vars

\* C2: injecting the tracking snippet is idempotent: whichever branch a
\* file took in a run that wrote its changes (skipped, repaired, inserted),
\* the next run counts the file as unchanged and leaves its text as it was.
C2_MetrikaIdempotent ==
    \A f \in DOMAIN ImPaths :
        (imRun >= 2 /\ ~imPrevDry /\ imPrevKind[f] # "none" /\ imKind[f] # "none")
        => /\ imKind[f] = "skip"
           /\ imText[f] = imPrev[f]
           /\ \A k \in DOMAIN imTouched : imTouched[k][2] # f

\* a second run has ended over a file whose image URL the first run repaired
\* and whose init call it rewrote
C2_Witness ==
    /\ imPc = "done" /\ imRun = 2 /\ ~imPrevDry /\ ~imDry
    /\ imPrevKind[1] = "update"
    /\ imSkipped = 2 /\ imAdded = 0 /\ imUpdated = 0
    /\ YmInitIds(imText[1]) = <<TARGET_ID>>
    /\ IdUrlIds(imText[1], WatchPrefix) = <<TARGET_ID>>

\* C4: once a run that writes has visited a file, every script URL, every
\* image URL and every init call in the file carries the target identifier.
C4_AllEncodingsCarryTarget ==
    \A f \in DOMAIN ImPaths :
        (imKind[f] # "none" /\ ~imDry)
        => LET ids == IdUrlIds(imText[f], TagJsPrefix)
                        \o IdUrlIds(imText[f], WatchPrefix)
                        \o YmInitIds(imText[f])
           IN \A k \in DOMAIN ids : ids[k] = TARGET_ID

\* the text holds none of the three encodings of a counter identifier
NoMarker(text) ==
    /\ IdUrlIds(text, TagJsPrefix) = <<>>
    /\ IdUrlIds(text, WatchPrefix) = <<>>
    /\ YmInitIds(text) = <<>>

\* the positions where the text holds the tag, whatever the case of its letters
TagPositions(text, tag) == {i \in 1..Len(text) : LitAt(text, tag, i)}

\* the position the snippet is to go to: the last closing head tag, else the
\* last closing body tag, else past the end
AnchorOf(text) ==
    LET heads == TagPositions(text, <<"<","/","h","e","a","d",">">>)
        bodies == TagPositions(text, <<"<","/","b","o","d","y",">">>)
    IN IF heads # {} THEN SetMax(heads)
       ELSE IF bodies # {} THEN SetMax(bodies)
       ELSE Len(text) + 1

\* C16: a document without any counter gets the snippet (between two
\* newlines) right before its last closing head tag, else right before its
\* last closing body tag, else at its very end; the text before and after
\* the insertion point is the original text, unchanged.
C16_InsertBeforeLastAnchor ==
    \A f \in DOMAIN ImPaths :
        (imKind[f] = "add" /\ ~imDry /\ NoMarker(imPrev[f]))
        => imText[f] = Slice(imPrev[f], 1, AnchorOf(imPrev[f]) - 1)
                         \o <<"\n">> \o SNIPPET \o <<"\n">>
                         \o Slice(imPrev[f], AnchorOf(imPrev[f]), Len(imPrev[f]))

\* the files a run has counted as kind, given the branch each file took
FilesOfKind(kinds, kind) == {f \in DOMAIN ImPaths : kinds[f] = kind}

\* C14: a run with --dry-run leaves every document as it was, and reports
\* what a run without the flag reports over the same tree: the same file
\* by file classification, the same three counts, the same touched files.
C14_DryRunReportsWithoutWriting ==
    /\ (imDry /\ imPc \in {"loop", "done"}) => imText = imPrev
    /\ (imPc = "done" /\ imRun >= 2 /\ imPrevDry /\ ~imDry)
         => /\ imKind = imPrevKind
            /\ imAdded = Cardinality(FilesOfKind(imPrevKind, "add"))
            /\ imUpdated = Cardinality(FilesOfKind(imPrevKind, "update"))
            /\ imSkipped = Cardinality(FilesOfKind(imPrevKind, "skip"))
            /\ {imTouched[k] : k \in DOMAIN imTouched}
                 = {<<imPrevKind[f], f>> : f \in FilesOfKind(imPrevKind, "add")
                                               \cup FilesOfKind(imPrevKind, "update")}
    /\ (imPc = "done" /\ imDry)
         => /\ imAdded = Cardinality(FilesOfKind(imKind, "add"))
            /\ imUpdated = Cardinality(FilesOfKind(imKind, "update"))
            /\ imSkipped = Cardinality(FilesOfKind(imKind, "skip"))
            /\ {imTouched[k] : k \in DOMAIN imTouched}
                 = {<<imKind[f], f>> : f \in FilesOfKind(imKind, "add")
                                           \cup FilesOfKind(imKind, "update")}

\* a run that writes has ended after a dry run over the same tree, a tree
\* with a page to repair or to fill and a page to leave alone
C14_Witness ==
    /\ imPc = "done" /\ imRun = 2 /\ imPrevDry /\ ~imDry
    /\ imPrevKind[1] \in {"add", "update"}
    /\ imPrevKind[2] = "skip"
    /\ imText[1] # imPrev[1]


(***************************************************************************)
(* tools/generate_sitemap.py and tools/generate_rss.py: the crawl.         *)
(* A file of the tree is [path, dt, html]: its path relative to ROOT, its  *)
(* last-modification time (the last commit's, else the mtime) in seconds   *)
(* after 2024-01-01T00:00:00Z, and its text.                               *)
(***************************************************************************)
\* EXCLUDE_DIRS (the same set in both generators)
EXCLUDE_DIRS == {
    <<".","g","i","t">>,
    <<".","g","i","t","h","u","b">>,
    <<"t","o","o","l","s">>,
    <<"a","s","s","e","t","s">>,
    <<"i","m","a","g","e","s">>,
    <<"i","m","g">>,
    <<"f","o","n","t","s">>,
    <<"c","s","s">>,
    <<"j","s">>,
    <<"v","e","n","d","o","r">>,
    <<"n","o","d","e","_","m","o","d","u","l","e","s">> }

\* [0-9a-zA-Z]
Alnum == Digits \cup {UpperChars[i] : i \in 1..26} \cup {LowerChars[i] : i \in 1..26}

\* ^<prefix>[0-9a-zA-Z]+\.html$ under (?i), prefix given in lower case
VerificationName(name, prefix) ==
    LET low == Lower(name)
        mid == Slice(name, Len(prefix) + 1, Len(name) - 5)
    IN /\ StartsWith(low, prefix)
       /\ EndsWith(low, <<".","h","t","m","l">>)
       /\ mid # <<>>
       /\ \A k \in DOMAIN mid : mid[k] \in Alnum

\* EXCLUDE_FILES_RE.match(name) of generate_sitemap
sm_excluded_file(name) ==
    \/ Lower(name) \in {
         <<"4","0","4",".","h","t","m","l">>,
         <<"c","n","a","m","e">>,
         <<"s","i","t","e","m","a","p",".","x","m","l">>,
         <<"s","i","t","e","m","a","p","-","i","n","d","e","x",".","x","m","l">>,
         <<"r","s","s",".","x","m","l">>,
         <<"f","e","e","d",".","x","m","l">>,
         <<"a","t","o","m",".","x","m","l">> }
    \/ VerificationName(name, <<"g","o","o","g","l","e">>)
    \/ VerificationName(name, <<"y","a","n","d","e","x","_">>)

\* EXCLUDE_FILES_REGEX.match(name) of generate_rss
rss_excluded_file(name) ==
    \/ Lower(name) \in {
         <<"4","0","4",".","h","t","m","l">>,
         <<"c","n","a","m","e">>,
         <<"s","i","t","e","m","a","p",".","x","m","l">>,
         <<"r","s","s",".","x","m","l">>,
         <<"f","e","e","d",".","x","m","l">>,
         <<"a","t","o","m",".","x","m","l">> }
    \/ VerificationName(name, <<"g","o","o","g","l","e">>)
    \/ VerificationName(name, <<"y","a","n","d","e","x","_">>)

\* collect, lines 92-96: the file is passed over
sm_excluded(parts) ==
    \/ \E k \in DOMAIN parts : parts[k] \in EXCLUDE_DIRS
    \/ sm_excluded_file(Name(parts))

\* collect_items, lines 114-118: the file is passed over
rss_excluded(parts) ==
    \/ \E k \in DOMAIN parts : parts[k] \in EXCLUDE_DIRS
    \/ rss_excluded_file(Name(parts))

\* BASE_URL is not set: both generators fall back to this value
DefaultBaseUrl ==
    <<"h","t","t","p","s",":","/","/","p","r","o","x","y","-","p","l","u","s",".","g","i","t","h","u","b",".","i","o">>

DigitChars == <<"0","1","2","3","4","5","6","7","8","9">>

\* str(n) for n >= 0
RECURSIVE Str(_)
Str(n) == IF n < 10 THEN <<DigitChars[n + 1]>>
          ELSE Str(n \div 10) \o <<DigitChars[(n % 10) + 1]>>

\* %S of strftime: two digits
TwoDigits(n) == <<DigitChars[(n \div 10) + 1], DigitChars[(n % 10) + 1]>>

\* fmt_w3c(dt), dt within the first minute of 2024
fmt_w3c(dt) ==
    <<"2","0","2","4","-","0","1","-","0","1","T","0","0",":","0","0",":">> \o TwoDigits(dt) \o <<"Z">>

\* to_rfc2822(dt), dt within the first minute of 2024 (a Monday)
to_rfc2822(dt) ==
    <<"M","o","n",","," ","0","1"," ","J","a","n"," ","2","0","2","4"," ","0","0",":","0","0",":">> \o TwoDigits(dt)
        \o <<" ","+","0","0","0","0">>

\* the clock when the index is written: datetime.now(timezone.utc)
Now == 30

\* items.sort(key=..., reverse=True): descending, and stable (items of equal
\* key keep their order); keys[i] is the key of items[i]
sort_reverse(items, keys) ==
    LET n == Len(items)
        Rank(i) == Cardinality({j \in 1..n :
                       keys[j] > keys[i] \/ (keys[j] = keys[i] /\ j < i)}) + 1
    IN [r \in 1..n |-> items[CHOOSE i \in 1..n : Rank(i) = r]]

\* generate_sitemap.collect() over the tree t
sm_collect(t) ==
    LET kept == SelectSeq(t, LAMBDA f : ~sm_excluded(f.path))
        items == [i \in 1..Len(kept) |->
                    [loc |-> sitemap_to_url(kept[i].path, DefaultBaseUrl),
                     lastmod |-> fmt_w3c(kept[i].dt),
                     dt |-> kept[i].dt]]
    IN sort_reverse(items, [i \in 1..Len(items) |-> items[i].dt])

(***************************************************************************)
(* generate_sitemap: the files it writes.  A file is [name, content]; the  *)
(* content of an XML file is its root element and its entries in order.    *)
(***************************************************************************)
SitemapXml == <<"s","i","t","e","m","a","p",".","x","m","l">>
SitemapIndexXml == <<"s","i","t","e","m","a","p","_","i","n","d","e","x",".","x","m","l">>

\* write_sitemap(path, items): one <url> per item, with <loc> and <lastmod>
UrlSet(items) ==
    [kind |-> "urlset",
     entries |-> [i \in 1..Len(items) |->
                    [loc |-> items[i].loc, lastmod |-> items[i].lastmod]]]

\* write_sitemap_index(path, parts): one <sitemap> per part name
SitemapIndex(parts) ==
    [kind |-> "sitemapindex",
     entries |-> [i \in 1..Len(parts) |->
                    [loc |-> escape(GeneratorBase(DefaultBaseUrl) \o <<"/">> \o parts[i]),
                     lastmod |-> fmt_w3c(Now)]]]

\* Unlink that removes nothing
Unlink_nothing(disk, name) == disk

\* path.write_text, path.unlink, and what a path holds
WriteFile(disk, name, content) ==
    {f \in disk : f.name # name} \cup {[name |-> name, content |-> content]}
Unlink(disk, name) == {f \in disk : f.name # name}
FileAt(disk, name) ==
    IF \E f \in disk : f.name = name
    THEN (CHOOSE f \in disk : f.name = name).content
    ELSE Absent

\* line 172: name = f"sitemap-{i // MAX_URLS + 1}.xml"
sm_part_name(i, max) ==
    <<"s","i","t","e","m","a","p","-">> \o Str((i \div max) + 1) \o <<".","x","m","l">>

\* a chunk that loses its last entry
sm_chunk_short(items, i, max) ==
    Slice(items, i + 1, IF i + max - 1 < Len(items) THEN i + max - 1 ELSE Len(items))

\* line 171: chunk = items[i:i + MAX_URLS], i >= 0 and MAX_URLS > 0
sm_chunk(items, i, max) ==
    Slice(items, i + 1, IF i + max < Len(items) THEN i + max ELSE Len(items))

\* i is in range(0, n, step)
InRange(i, n, step) == IF step > 0 THEN i < n ELSE i > n

(***************************************************************************)
(* SpecSitemap: generate_sitemap.main over a tree, run after run, the disk *)
(* at first empty or as an earlier run over a larger tree left it.         *)
(* MAKE_ROBOTS is not set.                                                 *)
(***************************************************************************)
\* the *.html files a tree may hold, in rglob order
TreePaths == <<
    << <<"i","n","d","e","x",".","h","t","m","l">> >>,
    << <<"a">>, <<"p",".","h","t","m","l">> >>,
    << <<"4","0","4",".","h","t","m","l">> >>,
    << <<"b",".","h","t","m","l">> >>,
    << <<"t","o","o","l","s">>, <<"x",".","h","t","m","l">> >>,
    << <<"a">>, <<"i","n","d","e","x",".","h","t","m","l">> >>,
    << <<"c",".","h","t","m","l">> >>,
    << <<"G","o","o","g","l","e","1",".","h","t","m","l">> >>,
    << <<"g","o","o","g","l","e","-","x",".","h","t","m","l">> >>,
    << <<"a">>, <<"y","a","n","d","e","x","_","1",".","h","t","m","l">> >> >>

\* the last-modification times
Times == 0..2

\* a page with a title
TitledDoc == <<"<","t","i","t","l","e",">","T","<","/","t","i","t","l","e",">">>

\* a page with a title, one whose first title element is empty once its
\* tags and blanks are stripped, one with no title element
TitleDocs == {
    TitledDoc,
    <<"<","T","I","T","L","E"," ","x",">"," ","<","b",">","<","/","b",">","\n","<","/","T","I","T","L","E",">","<","t","i","t","l","e",">","T","<","/","t","i","t","l","e",">">>,
    <<"<","h","1",">","T","<","/","h","1",">","<","/","t","i","t","l","e",">">> }

\* the i-th file of a tree: any time and any text for a file the generators
\* keep; the newest time and a title for one they pass over
FilesAt(i, H) ==
    IF sm_excluded(TreePaths[i]) \/ rss_excluded(TreePaths[i])
    THEN {[path |-> TreePaths[i], dt |-> 2, html |-> TitledDoc]}
    ELSE {[path |-> TreePaths[i], dt |-> d, html |-> h] : d \in Times, h \in H}

\* the trees of the first k paths, texts drawn from H
RECURSIVE TreesOf(_, _)
TreesOf(k, H) ==
    IF k = 0 THEN {<<>>}
    ELSE {Append(t, f) : t \in TreesOf(k - 1, H), f \in FilesAt(k, H)}

Trees(H) == UNION {TreesOf(k, H) : k \in 0..MaxFiles}

\* what a run over a tree of three pages with MAX_URLS=1 left on the disk
StaleDisk ==
    LET OldItem(n) ==
            [loc |-> escape(GeneratorBase(DefaultBaseUrl) \o <<"/","o","l","d">> \o Str(n)
                              \o <<".","h","t","m","l">>),
             lastmod |-> fmt_w3c(0), dt |-> 0]
    IN  {[name |-> sm_part_name(n - 1, 1), content |-> UrlSet(<<OldItem(n)>>)] : n \in 1..3}
    \cup {[name |-> SitemapIndexXml,
           content |-> SitemapIndex([n \in 1..3 |-> sm_part_name(n - 1, 1)])],
          [name |-> SitemapXml, content |-> SitemapIndex(<<SitemapIndexXml>>)]}

SitemapStart ==
    /\ tree \in Trees({TitledDoc})
    /\ smRun = 1
    /\ smMaxUrls \in (-1)..MaxCap
    /\ smPc = "start"
    /\ smItems = <<>>
    /\ smI = 0
    /\ smParts = <<>>
    /\ smDisk \in {{}, StaleDisk}
    /\ smWritten = {}
    /\ RssIdle
    /\ UrlIdle
    /\ BaseIdle
    /\ FcIdle
    /\ ImIdle

\* main, line 158: items = collect()
SmCollect ==
    /\ smPc = "start"
    /\ smItems' = sm_collect(tree)
    /\ smPc' = "collected"
    /\ UNCHANGED <<tree, smRun, smMaxUrls, smI, smParts, smDisk, smWritten, rssVars,
                   urlVars, baseVars, fcVars, imVars>>

\* main, lines 161-166: one flat sitemap.xml, and sitemap_index.xml removed
SmFlat ==
    /\ smPc = "collected"
    /\ Len(smItems) <= smMaxUrls
    /\ smDisk' = Unlink(WriteFile(smDisk, SitemapXml, UrlSet(smItems)), SitemapIndexXml)
    /\ smWritten' = smWritten \cup {SitemapXml}
    /\ smPc' = "done"
    /\ UNCHANGED <<tree, smRun, smMaxUrls, smItems, smI, smParts, rssVars,
                   urlVars, baseVars, fcVars, imVars>>

\* main, lines 169-170: parts = [], and the range of the loop is built;
\* range() raises ValueError on a step of 0
SmSplit ==
    /\ smPc = "collected"
    /\ Len(smItems) > smMaxUrls
    /\ smPc' = IF smMaxUrls = 0 THEN "raise" ELSE "parts"
    /\ smI' = 0
    /\ smParts' = <<>>
    /\ UNCHANGED <<tree, smRun, smMaxUrls, smItems, smDisk, smWritten, rssVars,
                   urlVars, baseVars, fcVars, imVars>>

\* main, lines 170-174: one part file
SmPart ==
    LET name == sm_part_name(smI, smMaxUrls)
    IN /\ smPc = "parts"
       /\ InRange(smI, Len(smItems), smMaxUrls)
       /\ smDisk' = WriteFile(smDisk, name, UrlSet(sm_chunk(smItems, smI, smMaxUrls)))
       /\ smWritten' = smWritten \cup {name}
       /\ smParts' = Append(smParts, name)
       /\ smI' = smI + smMaxUrls
       /\ UNCHANGED <<tree, smRun, smMaxUrls, smPc, smItems, rssVars,
                      urlVars, baseVars, fcVars, imVars>>

\* main, line 175: the loop is over, sitemap_index.xml is written
SmIndex ==
    /\ smPc = "parts"
    /\ ~InRange(smI, Len(smItems), smMaxUrls)
    /\ smDisk' = WriteFile(smDisk, SitemapIndexXml, SitemapIndex(smParts))
    /\ smWritten' = smWritten \cup {SitemapIndexXml}
    /\ smPc' = "main"
    /\ UNCHANGED <<tree, smRun, smMaxUrls, smItems, smI, smParts, rssVars,
                   urlVars, baseVars, fcVars, imVars>>

\* main, lines 177-185: sitemap.xml is written as an index of sitemap_index.xml
SmMain ==
    /\ smPc = "main"
    /\ smDisk' = WriteFile(smDisk, SitemapXml, SitemapIndex(<<SitemapIndexXml>>))
    /\ smWritten' = smWritten \cup {SitemapXml}
    /\ smPc' = "done"
    /\ UNCHANGED <<tree, smRun, smMaxUrls, smItems, smI, smParts, rssVars,
                   urlVars, baseVars, fcVars, imVars>>

\* the script is started again over the disk the last run left (a run that
\* ended in ValueError included); in between, pages were removed from the
\* tree or one was added to it, and MAX_URLS was set anew
SmRerun ==
    /\ smPc \in {"done", "raise"}
    /\ smRun < MaxRuns
    /\ smRun' = smRun + 1
    /\ tree' \in {SubSeq(tree, 1, k) : k \in 0..Len(tree)}
                \cup (IF Len(tree) < MaxFiles
                      THEN {Append(tree, f) : f \in FilesAt(Len(tree) + 1, {TitledDoc})}
                      ELSE {})
    /\ smMaxUrls' \in (-1)..MaxCap
    /\ smPc' = "start"
    /\ smItems' = <<>>
    /\ smI' = 0
    /\ smParts' = <<>>
    /\ smWritten' = {}
    /\ UNCHANGED <<smDisk, rssVars, urlVars, baseVars, fcVars, imVars>>

SpecSitemap ==
    SitemapStart
      /\ [][SmCollect
            \/ SmFlat
            \/ SmSplit
            \/ SmPart
            \/ SmIndex
            \/ SmMain
            \/ SmRerun]_vars

\* the files of the tree that the sitemap is to list
SitemapEligible == {x \in DOMAIN tree : ~sm_excluded(tree[x].path)}

\* sitemap-<j>.xml
PartFile(j) == <<"s","i","t","e","m","a","p","-">> \o Str(j) \o <<".","x","m","l">>

\* YYYY-MM-DDThh:mm:ssZ
IsTimestamp(t) ==
    /\ Len(t) = 20
    /\ t[5] = "-" /\ t[8] = "-" /\ t[11] = "T" /\ t[14] = ":" /\ t[17] = ":" /\ t[20] = "Z"
    /\ \A k \in (1..19) \ {5, 8, 11, 14, 17} : t[k] \in Digits

\* the entries are ordered by lastmod descending and list every eligible
\* file of the tree exactly once
SitemapItemsComplete ==
    /\ \A i, j \in DOMAIN smItems : i < j => smItems[i].dt >= smItems[j].dt
    /\ Len(smItems) = Cardinality(SitemapEligible)
    /\ \A x \in SitemapEligible :
          Cardinality({i \in DOMAIN smItems :
              /\ smItems[i].loc = sitemap_to_url(tree[x].path, DefaultBaseUrl)
              /\ smItems[i].lastmod = fmt_w3c(tree[x].dt)}) = 1

\* C5: with n entries and a cap c >= 1: when n > c the run writes exactly
\* the part files sitemap-1.xml .. sitemap-k.xml, k = ceil(n/c), each of at
\* most c entries, whose concatenation in part order is the whole entry list
\* sorted by lastmod descending, and sitemap_index.xml references exactly
\* those k parts, each with a timestamp; when n <= c one flat sitemap.xml
\* holds the n entries in that order.
C5_SitemapPartitioning ==
    (smPc = "done" /\ smMaxUrls >= 1)
    => LET n == Len(smItems)
           c == smMaxUrls
           k == (n + c - 1) \div c
           entries == UrlSet(smItems).entries
           index == FileAt(smDisk, SitemapIndexXml)
       IN /\ SitemapItemsComplete
          /\ IF n > c
             THEN /\ smWritten \ {SitemapXml, SitemapIndexXml} = {PartFile(j) : j \in 1..k}
                  /\ \A j \in 1..k :
                        /\ FileAt(smDisk, PartFile(j)).kind = "urlset"
                        /\ Len(FileAt(smDisk, PartFile(j)).entries) <= c
                  /\ Concat([j \in 1..k |-> FileAt(smDisk, PartFile(j)).entries]) = entries
                  /\ SitemapIndexXml \in smWritten
                  /\ index.kind = "sitemapindex"
                  /\ Len(index.entries) = k
                  /\ \A j \in 1..k :
                        /\ index.entries[j].loc
                             = GeneratorBase(DefaultBaseUrl) \o <<"/">> \o PartFile(j)
                        /\ IsTimestamp(index.entries[j].lastmod)
             ELSE /\ smWritten = {SitemapXml}
                  /\ FileAt(smDisk, SitemapXml) = [kind |-> "urlset", entries |-> entries]

\* a run has split three entries, found out of order and next to excluded
\* files, into a full part and a shorter one
C5_Witness ==
    /\ smPc = "done"
    /\ smMaxUrls = 2
    /\ Len(smItems) = 3
    /\ Len(tree) > 3
    /\ tree[1].dt < tree[2].dt
    /\ Len(FileAt(smDisk, PartFile(1)).entries) = 2
    /\ Len(FileAt(smDisk, PartFile(2)).entries) = 1

\* a file of that name is on the disk
OnDisk(name) == \E f \in smDisk : f.name = name

\* C15: whenever a run of the generator has ended, after whatever runs came
\* before it, sitemap_index.xml is on the disk exactly when that run had
\* more entries than the cap; a run whose entries fit in one sitemap.xml
\* removes the index an earlier run left.
C15_IndexIffSplit ==
    smPc = "done" => (OnDisk(SitemapIndexXml) <=> Len(smItems) > smMaxUrls)

\* a second run has ended whose entries fit under the cap, on a disk where
\* an earlier run had split its entries into parts
C15_Witness ==
    /\ smPc = "done" /\ smRun = 2
    /\ Len(smItems) >= 1 /\ Len(smItems) <= smMaxUrls
    /\ smWritten = {SitemapXml}
    /\ OnDisk(PartFile(1))
    /\ ~OnDisk(SitemapIndexXml)

\* the numbered part files on the disk
PartsOnDisk == {f.name : f \in smDisk} \ {SitemapXml, SitemapIndexXml}

\* the URLs the sitemap_index.xml on the disk refers to
IndexedLocs ==
    IF OnDisk(SitemapIndexXml)
    THEN {FileAt(smDisk, SitemapIndexXml).entries[k].loc :
            k \in DOMAIN FileAt(smDisk, SitemapIndexXml).entries}
    ELSE {}

\* C18: whenever a run of the generator has ended, every part file
\* sitemap-N.xml on the disk is referenced by the sitemap_index.xml on the
\* disk: no part file of an earlier, longer run is left behind.
C18_NoStaleParts ==
    smPc = "done" =>
        \A name \in PartsOnDisk :
            escape(GeneratorBase(DefaultBaseUrl) \o <<"/">> \o name) \in IndexedLocs

(***************************************************************************)
(* tools/generate_rss.py: get_title and collect_items.  The description    *)
(* of an item bears neither on which items are emitted nor on their order  *)
(* and is left out.                                                        *)
(***************************************************************************)
\* TITLE_RE, <title[^>]*>(.*?)</title> under IGNORECASE | DOTALL, matched at
\* position i: the end of the opening tag and the start of the closing one,
\* <<0, 0>> when it does not match there
TitleAt(s, i) ==
    LET g == FirstChar(s, ">", i + 6)
        closes == {e \in (g + 1)..Len(s) : LitAt(s, <<"<","/","t","i","t","l","e",">">>, e)}
    IN IF LitAt(s, <<"<","t","i","t","l","e">>, i) /\ g # 0 /\ closes # {}
       THEN <<g, SetMin(closes)>> ELSE <<0, 0>>

\* strip_tags(s): re.sub(r"<[^>]+>", "", s)
RECURSIVE strip_tags(_)
strip_tags(s) ==
    LET opens == {i \in DOMAIN s :
                     s[i] = "<" /\ FirstChar(s, ">", i + 1) > i + 1}
        i == SetMin(opens)
    IN IF opens = {} THEN s
       ELSE Slice(s, 1, i - 1) \o strip_tags(Slice(s, FirstChar(s, ">", i + 1) + 1, Len(s)))

\* re.sub(r"\s+", " ", t)
RECURSIVE CollapseBlanks(_)
CollapseBlanks(t) ==
    IF t = <<>> THEN <<>>
    ELSE IF t[1] \in Whitespace
    THEN <<" ">> \o CollapseBlanks(Slice(t, RunEnd(t, Whitespace, 1) + 1, Len(t)))
    ELSE <<t[1]>> \o CollapseBlanks(Tail(t))

\* get_title(html_text), for a text without character references (which
\* html.unescape leaves as it is)
get_title(html_text) ==
    LET starts == {i \in DOMAIN html_text : TitleAt(html_text, i) # <<0, 0>>}
        m == TitleAt(html_text, SetMin(starts))
        t == Strip(strip_tags(Slice(html_text, m[1] + 1, m[2] - 1)))
        u == CollapseBlanks(t)
    IN IF starts = {} THEN <<>>
       ELSE Slice(u, 1, IF Len(u) < 300 THEN Len(u) ELSE 300)

\* the cap that keeps the oldest items
rss_cap_tail(items, max) ==
    IF max # 0 /\ max > 0
    THEN Slice(items, IF Len(items) > max THEN Len(items) - max + 1 ELSE 1, Len(items))
    ELSE items

\* lines 142-143: if MAX_ITEMS and MAX_ITEMS > 0: items = items[:MAX_ITEMS]
rss_cap(items, max) ==
    IF max # 0 /\ max > 0
    THEN Slice(items, 1, IF max < Len(items) THEN max ELSE Len(items))
    ELSE items

\* collect_items() over the tree t with MAX_ITEMS = max
collect_items(t, max) ==
    LET kept == SelectSeq(t, LAMBDA f :
                    ~rss_excluded(f.path) /\ get_title(f.html) # <<>>)
        items == [i \in 1..Len(kept) |->
                    [title |-> get_title(kept[i].html),
                     link |-> rss_to_url(kept[i].path, DefaultBaseUrl),
                     guid |-> rss_to_url(kept[i].path, DefaultBaseUrl),
                     pubDate |-> to_rfc2822(kept[i].dt),
                     dt_sort |-> kept[i].dt]]
    IN rss_cap(sort_reverse(items, [i \in 1..Len(items) |-> items[i].dt_sort]), max)

\* html.escape (quote=True): a per-character map
html_escape(s) ==
    LET Escaped(c) ==
            CASE c = "&" -> <<"&","a","m","p",";">>
              [] c = "<" -> <<"&","l","t",";">>
              [] c = ">" -> <<"&","g","t",";">>
              [] c = "\"" -> <<"&","q","u","o","t",";">>
              [] c = "'" -> <<"&","#","x","2","7",";">>
              [] OTHER -> <<c>>
    IN Concat([i \in 1..Len(s) |-> Escaped(s[i])])

\* render_rss(items): the <item> elements of the channel
render_rss(items) ==
    [kind |-> "rss",
     entries |-> [i \in 1..Len(items) |->
                    [title |-> html_escape(items[i].title),
                     link |-> html_escape(items[i].link),
                     guid |-> html_escape(items[i].guid),
                     pubDate |-> items[i].pubDate]]]

(***************************************************************************)
(* SpecRss: generate_rss.main over a tree.                                 *)
(***************************************************************************)
RssStart ==
    /\ tree \in Trees(TitleDocs)
    /\ rssMaxItems \in (-1)..MaxCap
    /\ rssPc = "start"
    /\ rssItems = <<>>
    /\ rssFile = Absent
    /\ SmIdle
    /\ UrlIdle
    /\ BaseIdle
    /\ FcIdle
    /\ ImIdle

\* main, line 171: items = collect_items()
RssCollect ==
    /\ rssPc = "start"
    /\ rssItems' = collect_items(tree, rssMaxItems)
    /\ rssPc' = "collected"
    /\ UNCHANGED <<tree, rssMaxItems, rssFile, smVars, urlVars, baseVars, fcVars, imVars>>

\* main, lines 172-174: rss.xml is rendered and written
RssWrite ==
    /\ rssPc = "collected"
    /\ rssFile' = render_rss(rssItems)
    /\ rssPc' = "done"
    /\ UNCHANGED <<tree, rssMaxItems, rssItems, smVars, urlVars, baseVars, fcVars, imVars>>

SpecRss ==
    RssStart /\ [][RssCollect \/ RssWrite]_vars

\* the documents of the tree that are eligible for the feed: not excluded,
\* and with a title
RssEligible ==
    {x \in DOMAIN tree : ~rss_excluded(tree[x].path) /\ get_title(tree[x].html) # <<>>}

\* the item is the one of document x
ItemOf(it, x) ==
    /\ it.link = rss_to_url(tree[x].path, DefaultBaseUrl)
    /\ it.dt_sort = tree[x].dt

\* C6: when collect_items returns, its items are ordered by timestamp descending;
\* each is the item of one eligible document, no document twice; with
\* MAX_ITEMS = N > 0 there are min(N, eligible documents) of them and no
\* eligible document left out is more recent than one kept; with
\* MAX_ITEMS = 0 every eligible document has its item.
C6_RssOrderAndCap ==
    (rssPc = "collected" /\ rssMaxItems >= 0)
    => LET n == Len(rssItems)
           eligible == RssEligible
           e == Cardinality(eligible)
           kept == {x \in eligible : \E i \in DOMAIN rssItems : ItemOf(rssItems[i], x)}
       IN /\ \A i, j \in DOMAIN rssItems :
                i < j => rssItems[i].dt_sort >= rssItems[j].dt_sort
          /\ \A i \in DOMAIN rssItems : \E x \in eligible : ItemOf(rssItems[i], x)
          /\ \A i, j \in DOMAIN rssItems : i # j => rssItems[i].link # rssItems[j].link
          /\ IF rssMaxItems > 0
             THEN /\ n = (IF rssMaxItems < e THEN rssMaxItems ELSE e)
                  /\ \A x \in eligible \ kept :
                        \A i \in DOMAIN rssItems : rssItems[i].dt_sort >= tree[x].dt
             ELSE n = e

\* three eligible documents found oldest first, next to an excluded one, and
\* a feed capped to the two most recent
C6_Witness ==
    /\ rssPc = "collected"
    /\ rssMaxItems = 2
    /\ Cardinality(RssEligible) = 3
    /\ Len(tree) > 3
    /\ tree[1].dt < tree[2].dt /\ tree[2].dt < tree[4].dt
    /\ Len(rssItems) = 2
    /\ rssItems[1].dt_sort = tree[4].dt /\ rssItems[2].dt_sort = tree[2].dt

(***************************************************************************)
(* SpecPipeline: fix_canonical, generate_sitemap and generate_rss over one *)
(* tree, in any order and interleaved.  BASE_URL is not set and the        *)
(* repository is proxy-plus/proxy-plus.github.io, so that the three        *)
(* scripts work with the same base URL.                                    *)
(***************************************************************************)
\* fix_canonical has resolved its base URL and rglob has listed the tree (a
\* few of the files of TreePaths, in rglob order); the generators have not
\* started
PipelineStart ==
    /\ \E S \in SUBSET DOMAIN TreePaths :
          /\ Cardinality(S) \in 1..MaxPipelineFiles
          /\ tree = [k \in 1..Cardinality(S) |->
                       [path |-> TreePaths[CHOOSE i \in S :
                                              Cardinality({j \in S : j < i}) = k - 1],
                        dt |-> 0,
                        html |-> TitledDoc]]
    /\ envBaseUrl = <<>>
    /\ envSiteDomain = <<>>
    /\ repoSet = TRUE
    /\ repoOwner = <<"p","r","o","x","y","-","p","l","u","s">>
    /\ repoName = <<"p","r","o","x","y","-","p","l","u","s",".","g","i","t","h","u","b",".","i","o">>
    /\ cnameExists = FALSE
    /\ cnameText = <<>>
    /\ fcBase = fc_resolve(envBaseUrl, cnameExists, cnameText,
                           RepoEnv(repoSet, repoOwner, repoName))
    /\ gpBase = Unresolved
    /\ fcText = <<>>
    /\ fcUnreadable = {} /\ fcUnwritable = {}
    /\ fcPc = "loop"
    /\ fcRun = 1
    /\ fcTodo = DOMAIN tree
    /\ fcChanged = 0
    /\ fcSkipped = 0
    /\ fcPrev = [k \in DOMAIN tree |-> tree[k].html]
    /\ fcReads = {}
    /\ fcWrites = {}
    /\ smRun = 1
    /\ smMaxUrls \in 1..MaxCap
    /\ smPc = "start"
    /\ smItems = <<>>
    /\ smI = 0
    /\ smParts = <<>>
    /\ smDisk = {}
    /\ smWritten = {}
    /\ rssMaxItems = 0
    /\ rssPc = "start"
    /\ rssItems = <<>>
    /\ rssFile = Absent
    /\ UrlIdle
    /\ ImIdle

\* fix_canonical.main, lines 100-118, for the k-th file of the tree: an
\* excluded file is passed over, another is rewritten when ensure_canonical
\* changes it.  The file's date is that of its last commit, which the
\* write does not change.
FcTreeFile(k) ==
    LET html == tree[k].html
        can_url == build_canonical_for(tree[k].path, fcBase.url)
        new_html == ensure_canonical(html, can_url)
    IN /\ fcPc = "loop"
       /\ k \in fcTodo
       /\ fcTodo' = fcTodo \ {k}
       /\ fcReads' = fcReads \cup {k}
       /\ IF can_url = <<>> \/ new_html = html
          THEN UNCHANGED <<tree, fcChanged, fcWrites>>
          ELSE /\ tree' = [tree EXCEPT ![k].html = new_html]
               /\ fcChanged' = fcChanged + 1
               /\ fcWrites' = fcWrites \cup {k}
       /\ UNCHANGED <<fcText, fcUnreadable, fcUnwritable, fcPc, fcRun, fcSkipped,
                      fcPrev, baseVars, urlVars, imVars, smVars, rssVars>>

SpecPipeline ==
    PipelineStart
      /\ [][(\E k \in 1..MaxPipelineFiles : FcTreeFile(k))
            \/ FcSummary
            \/ SmCollect
            \/ SmFlat
            \/ SmSplit
            \/ SmPart
            \/ SmIndex
            \/ SmMain
            \/ RssCollect
            \/ RssWrite]_vars

\* the name of the k-th file is one of the excluded patterns: the 404 page
\* or a verification file of Google or Yandex
ExcludedName(k) ==
    LET name == Name(tree[k].path)
    IN \/ Lower(name) = <<"4","0","4",".","h","t","m","l">>
       \/ VerificationName(name, <<"g","o","o","g","l","e">>)
       \/ VerificationName(name, <<"y","a","n","d","e","x","_">>)

\* the k-th file has no entry in the sitemap and no item in the feed, as
\* far as the generators have collected them
NotListed(k) ==
    /\ \A i \in DOMAIN smItems :
          smItems[i].loc # sitemap_to_url(tree[k].path, DefaultBaseUrl)
    /\ \A i \in DOMAIN rssItems :
          rssItems[i].link # rss_to_url(tree[k].path, DefaultBaseUrl)

\* C11: a file whose name is an excluded pattern gets the empty result of
\* build_canonical_for, is left as it was by fix_canonical, and has no
\* sitemap entry and no feed item; and no file that build_canonical_for
\* excludes has a sitemap entry or a feed item.
C11_ExclusionConsistent ==
    \A k \in DOMAIN tree :
        /\ ExcludedName(k)
             => /\ build_canonical_for(tree[k].path, fcBase.url) = <<>>
                /\ k \notin fcWrites
                /\ tree[k].html = fcPrev[k]
                /\ NotListed(k)
        /\ build_canonical_for(tree[k].path, fcBase.url) = <<>> => NotListed(k)

(***************************************************************************)
(* The three canonicalizers side by side (SpecUrl).                        *)
(***************************************************************************)
\* none of the three scripts passes the document over
NoneExcludes(parts) ==
    ~fc_excluded(parts) /\ ~sm_excluded(parts) /\ ~rss_excluded(parts)

\* C19: for a document none of the scripts excludes, the URL of
\* build_canonical_for, the <loc> of the sitemap before XML escaping and the
\* link of the feed are the same URL; and no other document of the sitemap
\* has that <loc>.
C19_CanonicalizersAgree ==
    (urlDone = {"fc", "sm", "rss"} /\ NoneExcludes(rel))
    => /\ smLoc = escape(canon)
       /\ rssLink = canon
       /\ \A other \in RelPaths :
             (other # rel /\ ~sm_excluded(other)) => sitemap_to_url(other, base) # smLoc

====
